---- MODULE Spec2Model ----
(***************************************************************************)
(* Model of the Real-Time AI Interview Assistant.                          *)
(*                                                                         *)
(* The repository is a set of loosely coupled subsystems; each one is      *)
(* modelled by its own group of variables, its own actions and its own     *)
(* specification:                                                          *)
(*   SpecLLM  - UnifiedLLMClient / OllamaClient: construction and          *)
(*              generate_stream (src/src/core/unified_llm_client.py,       *)
(*              src/src/core/ollama_client.py)                             *)
(*   SpecCLI  - run_interview_session / print_wrapped_response and the     *)
(*              cancel watcher thread (src/main.py)                        *)
(*   SpecTr   - transcribe_chunk and TranscriptionService.transcribe_audio *)
(*   SpecRec  - Flask start-recording / stop-recording handlers and the    *)
(*              audio callback thread (src/web_server.py)                  *)
(*   SpecSSE  - the event stream of /api/generate-response                 *)
(*   SpecPick - pick_system_audio_device (src/src/core/audio_device_util.py)*)
(*   SpecQD   - QuestionDetector.is_question (backend/question_detector.py) *)
(*   SpecWS   - websocket_endpoint (backend/main.py)                        *)
(*   SpecAG   - AnswerGenerator (backend/answer_generator.py)               *)
(*   SpecCM   - ConnectionManager (backend/connection_manager.py)           *)
(* While one subsystem runs, the variables of the others stay at their     *)
(* idle values.                                                            *)
(***************************************************************************)
EXTENDS Integers, Sequences, FiniteSets, TLC

(***************************************************************************)
(* Bounds of the model.                                                    *)
(***************************************************************************)
MaxTokens == 3
MaxCalls == 2
MaxQuestions == 2
MaxLen == 3
MaxFrames == 3
MaxStarts == 2
MaxDevices == 2
MaxPieces == 3
MaxInbox == 1
MaxWords == 3
MaxOps == 4

VARIABLES
  \* ---- UnifiedLLMClient / OllamaClient ----
  client,             \* which class is constructed: "unified" | "ollama"
  prefer_groq,        \* __init__ argument
  has_key,            \* GROQ_API_KEY is non-empty
  model,              \* self.model
  provider,           \* self.provider ("none" is Python's None)
  working,            \* self.working
  groq_model,         \* self.groq_model ("" while unset)
  connection_attempts,\* OllamaClient.connection_attempts
  ipc,                \* position inside __init__: "new" | "ollama" | "done"
  tests,              \* history: the connection tests __init__ ran, in order
  gpc,                \* position inside generate_stream: "idle" | "post" | "stream" | "end"
  fallback_response,  \* generate_stream argument ("" is None / empty: falsy)
  token_count,        \* local token_count of the running stream function
  out,                \* fragments yielded by generate_stream so far, in order
  calls,              \* history: providers this generate_stream call POSTed to
  fail_tc,            \* history: token_count when the provider failed, -1 = no failure
  was_working,        \* history: self.working when generate_stream was entered
  ncalls,             \* number of generate_stream calls started
  \* ---- run_interview_session (CLI) ----
  cpc,                \* position of the main thread inside the loop
  question_count,     \* question_count
  audio,              \* the chunk returned by record_manual_control
  text,               \* the string returned by transcribe_chunk
  cycle_kind,         \* history: what the transcription of this cycle was
  windows,            \* msvcrt can be imported
  stop_generation,    \* the Event bound to the name stop_generation is set
  watchers,           \* watch_for_space threads still alive
  received,           \* tokens the for loop got from the generator
  shown,              \* tokens added to the wrapper and to response_text
  engine_reads,       \* tokens the generator read from the engine
  cancel_k,           \* history: received when the flag was set, -1 = not set
  reads_after_cancel, \* history: engine reads begun after the flag was set
  response_kind,      \* what print_wrapped_response returned
  gen_for,            \* history: cycle_kind of every generation call
  cli_engine_calls,   \* history: calls of model.transcribe by the loop
  \* ---- transcription functions ----
  tr_audio,           \* the chunk given to the function
  tr_path,            \* "none" | "chunk" | "service": the function applied
  tr_result,          \* what it returned
  tr_engine_calls,    \* history: calls of the engine's transcribe
  tr_exc,             \* history: the engine's transcribe raised in this call
  tr_segments,        \* history: the segments the engine returned in this call
  \* ---- web_server.py recording ----
  device_pick,        \* state.device_pick is not None
  is_recording,       \* state.is_recording
  recording_event,    \* state.recording_event is set
  audio_frames,       \* state.audio_frames (frames are numbered as they arrive)
  stream,             \* state.stream is not None
  streams_opened,     \* history: input streams opened so far
  hpc,                \* position of each request handler thread
  resp,               \* the last response of each handler thread
  cb_pc,              \* position of the audio callback
  cb_frame,           \* the frame the running callback holds
  next_frame,         \* frames delivered by the hardware so far
  epoch,              \* history: number of the current recording
  delivered,          \* history: per recording, frames delivered while the flag was set
  my_epoch,           \* history: the recording each stop handler ended
  chunks,             \* history: chunks produced by stop, with their recording
  active,             \* history: recordings started and not yet stopped
  starts,             \* history: start requests that passed the checks
  \* ---- web_server.py /api/generate-response ----
  sse_pc,             \* position of the request: request/rejected/streaming/finished/closed
  sse_question,       \* data.get('question')
  sse_llm,            \* state.llm is not None
  sse_status,         \* HTTP status of the response (0: none yet)
  sse_frames,         \* frames written to the event stream
  gen_outcome,        \* history: how the token generator ended
  \* ---- audio_device_util.py ----
  devices,            \* sd.query_devices() with what each device's tests observe
  force_idx,          \* FORCE_DEVICE_INDEX as read by the picker (-1: not a number)
  pick_pc,            \* start / picked / ready / aborted
  pick_result,        \* the DevicePick returned, or the exception raised
  \* ---- backend/question_detector.py ----
  qd_text,            \* the text given to is_question
  qd_pc,              \* idle / done
  qd_result,          \* the dict is_question returned
  \* ---- backend/main.py websocket_endpoint ----
  registry,           \* connection_manager.active_connections / session_data keys
  loop_owner,         \* the handler that is running on the event loop, or "none"
  wpc,                \* position of each session's handler
  inbox,              \* audio chunks sent by each client and not yet received
  audio_buffer,       \* len(audio_buffer) of each handler
  transcript_text,    \* transcript_text of each handler's current batch
  events,             \* events sent to each client for its current batch
  \* ---- backend/answer_generator.py AnswerGenerator ----
  ag_pc,              \* new / ready / call / score
  ag_use_ollama,      \* self.use_ollama
  ag_model,           \* self.model
  ag_groq_client,     \* self.groq_client is not None
  ag_calls,           \* history: generate_answer calls started
  ag_attempts,        \* history: the backend requests of the current call
  ag_answer,          \* words of the text _call_llm returned
  ag_context,         \* words of resume_context and jd_context
  ag_result,          \* what generate_answer returned
  \* ---- backend/connection_manager.py ConnectionManager ----
  active_connections, \* keys of self.active_connections
  session_data,       \* self.session_data: session id -> its audio_buffer
  cm_ops,             \* history: method calls made
  cm_last             \* history: the last call, whether its id was known, its result

llmVars == <<client, prefer_groq, has_key, model, provider, working, groq_model,
             connection_attempts, ipc, tests, gpc, fallback_response,
             token_count, out, calls, fail_tc, was_working, ncalls>>

cliVars == <<cpc, question_count, audio, text, cycle_kind, windows,
             stop_generation, watchers, received, shown, engine_reads,
             cancel_k, reads_after_cancel, response_kind, gen_for,
             cli_engine_calls>>

trVars == <<tr_audio, tr_path, tr_result, tr_engine_calls, tr_exc,
            tr_segments>>

recVars == <<device_pick, is_recording, recording_event, audio_frames,
             stream, streams_opened, hpc, resp, cb_pc, cb_frame, next_frame,
             epoch, delivered, my_epoch, chunks, active, starts>>

sseVars == <<sse_pc, sse_question, sse_llm, sse_status, sse_frames, gen_outcome>>

pickVars == <<devices, force_idx, pick_pc, pick_result>>

qdVars == <<qd_text, qd_pc, qd_result>>

wsVars == <<registry, loop_owner, wpc, inbox, audio_buffer, transcript_text, events>>

agVars == <<ag_pc, ag_use_ollama, ag_model, ag_groq_client, ag_calls,
            ag_attempts, ag_answer, ag_context, ag_result>>

cmVars == <<active_connections, session_data, cm_ops, cm_last>>

vars == <<llmVars, cliVars, trVars, recVars, sseVars, pickVars, qdVars,
          wsVars, agVars, cmVars>>

notLLM == <<cliVars, trVars, recVars, sseVars, pickVars,
  qdVars, wsVars, agVars, cmVars>>

notCLI == <<llmVars, trVars, recVars, sseVars, pickVars,
  qdVars, wsVars, agVars, cmVars>>

notTr == <<llmVars, cliVars, recVars, sseVars, pickVars,
  qdVars, wsVars, agVars, cmVars>>

notRec == <<llmVars, cliVars, trVars, sseVars, pickVars,
  qdVars, wsVars, agVars, cmVars>>

notSSE == <<llmVars, cliVars, trVars, recVars, pickVars,
  qdVars, wsVars, agVars, cmVars>>

notPick == <<llmVars, cliVars, trVars, recVars, sseVars,
  qdVars, wsVars, agVars, cmVars>>

notQD == <<llmVars, cliVars, trVars, recVars, sseVars,
  pickVars, wsVars, agVars, cmVars>>

notWS == <<llmVars, cliVars, trVars, recVars, sseVars,
  pickVars, qdVars, agVars, cmVars>>

notAG == <<llmVars, cliVars, trVars, recVars, sseVars,
  pickVars, qdVars, wsVars, cmVars>>

notCM == <<llmVars, cliVars, trVars, recVars, sseVars,
  pickVars, qdVars, wsVars, agVars>>

(***************************************************************************)
(* UnifiedLLMClient.__init__                                               *)
(***************************************************************************)
Canned == "canned fallback answer"

Models == {"llama3.2:3b", "llama3.1:8b", "codellama:7b-instruct-q4_0"}

\* self.groq_model_map.get(self.model, "llama-3.2-3b-preview")
GroqModelFor(m) ==
  CASE m = "llama3.2:3b" -> "llama-3.2-3b-preview"
    [] m = "llama3.1:8b" -> "llama-3.1-8b-instant"
    [] m = "llama3:70b"  -> "llama-3.1-70b-versatile"
    [] m = "mistral:7b"  -> "mixtral-8x7b-32768"
    [] m = "mixtral"     -> "mixtral-8x7b-32768"
    [] OTHER             -> "llama-3.2-3b-preview"

\* "llama-3.2" in groq_model
IsLlama32(gm) == gm = "llama-3.2-3b-preview"

AltGroqModel == "llama-3.1-8b-instant"

\* outcome of one HTTP request: status 200, another status, or an exception
HttpOutcomes == {"200", "err", "exc"}

LLMIdle ==
  /\ client = "unified" /\ prefer_groq = TRUE /\ has_key = TRUE
  /\ model = "llama3.2:3b"
  /\ provider = "none" /\ working = FALSE /\ groq_model = ""
  /\ connection_attempts = 0
  /\ ipc = "new" /\ tests = <<>>
  /\ gpc = "idle" /\ fallback_response = "" /\ token_count = 0
  /\ out = <<>> /\ calls = <<>> /\ fail_tc = -1 /\ was_working = FALSE
  /\ ncalls = 0

LLMInit ==
  /\ client \in {"unified", "ollama"}
  /\ prefer_groq \in BOOLEAN /\ has_key \in BOOLEAN
  /\ (client = "ollama" => prefer_groq /\ has_key)
  /\ model \in Models
  /\ provider = "none" /\ working = FALSE /\ groq_model = ""
  /\ connection_attempts = 0
  /\ ipc = "new" /\ tests = <<>>
  /\ gpc = "idle" /\ fallback_response = "" /\ token_count = 0
  /\ out = <<>> /\ calls = <<>> /\ fail_tc = -1 /\ was_working = FALSE
  /\ ncalls = 0

genVars == <<gpc, fallback_response, token_count, out, calls, fail_tc,
             was_working, ncalls>>

\* a variant of InitGroq in which __init__ goes on to _init_ollama even
\* when _init_groq succeeded
InitGroqMissingReturn ==
  /\ client = "unified" /\ ipc = "new"
  /\ prefer_groq /\ has_key
  /\ \E r1 \in HttpOutcomes, r2 \in HttpOutcomes :
       LET gm  == GroqModelFor(model)
           sel == IF r1 = "200" THEN gm
                  ELSE IF r1 = "err" /\ IsLlama32(gm) /\ r2 = "200"
                       THEN AltGroqModel ELSE ""
       IN /\ tests' = Append(tests, [name |-> "groq", ok |-> sel # ""])
          /\ IF sel # ""
             THEN /\ provider' = "groq" /\ groq_model' = sel /\ working' = TRUE
             ELSE /\ UNCHANGED <<provider, groq_model, working>>
          /\ ipc' = "ollama"
  /\ UNCHANGED <<client, prefer_groq, has_key, model, connection_attempts>>
  /\ UNCHANGED genVars
  /\ UNCHANGED notLLM

\* _init_groq as reached from __init__ (prefer_groq and GROQ_API_KEY), with
\* __init__'s "return" when it succeeds.
InitGroq ==
  /\ client = "unified" /\ ipc = "new"
  /\ prefer_groq /\ has_key
  /\ \E r1 \in HttpOutcomes, r2 \in HttpOutcomes :
       LET gm  == GroqModelFor(model)
           sel == IF r1 = "200" THEN gm
                  ELSE IF r1 = "err" /\ IsLlama32(gm) /\ r2 = "200"
                       THEN AltGroqModel ELSE ""
       IN /\ tests' = Append(tests, [name |-> "groq", ok |-> sel # ""])
          /\ IF sel # ""
             THEN /\ provider' = "groq" /\ groq_model' = sel /\ working' = TRUE
                  /\ ipc' = "done"
             ELSE /\ UNCHANGED <<provider, groq_model, working>>
                  /\ ipc' = "ollama"
  /\ UNCHANGED <<client, prefer_groq, has_key, model, connection_attempts>>
  /\ UNCHANGED genVars
  /\ UNCHANGED notLLM

\* __init__ when Groq is not preferred or no API key is set
SkipGroq ==
  /\ client = "unified" /\ ipc = "new"
  /\ ~(prefer_groq /\ has_key)
  /\ ipc' = "ollama"
  /\ UNCHANGED <<client, prefer_groq, has_key, model, provider, working,
                 groq_model, connection_attempts, tests>>
  /\ UNCHANGED genVars
  /\ UNCHANGED notLLM

\* _init_ollama
InitOllama ==
  /\ client = "unified" /\ ipc = "ollama"
  /\ \E tags \in HttpOutcomes, avail \in {"exact", "partial", "none"},
        gen \in HttpOutcomes :
       LET ok == tags = "200" /\ avail # "none" /\ gen = "200"
       IN /\ model' = IF tags = "200" /\ avail = "partial"
                      THEN "matching[0]" ELSE model
          /\ provider' = IF ok THEN "ollama" ELSE provider
          /\ working' = IF ok THEN TRUE ELSE working
          /\ tests' = Append(tests, [name |-> "ollama", ok |-> ok])
  /\ ipc' = "done"
  /\ UNCHANGED <<client, prefer_groq, has_key, groq_model, connection_attempts>>
  /\ UNCHANGED genVars
  /\ UNCHANGED notLLM

(***************************************************************************)
(* OllamaClient.__init__ (ollama_client.py): up to max_retries connection  *)
(* tests.                                                                  *)
(***************************************************************************)
max_retries == 2

OllamaTestConnection ==
  /\ client = "ollama" /\ ipc = "new"
  /\ connection_attempts < max_retries
  /\ \E ok \in BOOLEAN :
       /\ working' = ok
       /\ connection_attempts' = connection_attempts + 1
       /\ tests' = Append(tests, [name |-> "ollama", ok |-> ok])
       /\ ipc' = IF ok \/ connection_attempts + 1 = max_retries
                 THEN "done" ELSE "new"
  /\ UNCHANGED <<client, prefer_groq, has_key, model, provider, groq_model>>
  /\ UNCHANGED genVars
  /\ UNCHANGED notLLM

(***************************************************************************)
(* generate_stream                                                         *)
(***************************************************************************)
initVars == <<client, prefer_groq, has_key, model, provider, groq_model,
              connection_attempts, ipc, tests>>

\* "if fallback_response: yield fallback_response"
YieldFallback(o) ==
  IF fallback_response # "" THEN Append(o, fallback_response) ELSE o

\* a provider failure inside a stream function: the handler may yield the
\* fallback, then the generator ends
Fail(yield_fb) ==
  /\ fail_tc' = token_count
  /\ out' = IF yield_fb THEN YieldFallback(out) ELSE out
  /\ gpc' = "end"

\* "token_count += 1; yield ..."
YieldToken ==
  /\ token_count < MaxTokens
  /\ token_count' = token_count + 1
  /\ out' = Append(out, "tok")

\* entry of generate_stream: the "if not self.working" branch and the dispatch
GenerateStream ==
  /\ ipc = "done" /\ gpc = "idle"
  /\ ncalls < MaxCalls
  /\ \E fb \in {"", Canned} :
       /\ fallback_response' = fb
       /\ out' = IF ~working /\ fb # "" THEN <<fb>> ELSE <<>>
  /\ was_working' = working
  /\ gpc' = IF working THEN "post" ELSE "end"
  /\ token_count' = 0 /\ calls' = <<>> /\ fail_tc' = -1
  /\ ncalls' = ncalls + 1
  /\ UNCHANGED initVars /\ UNCHANGED working
  /\ UNCHANGED notLLM

\* the consumer exhausts the generator
GenerateStreamReturn ==
  /\ gpc = "end"
  /\ gpc' = "idle"
  /\ UNCHANGED <<fallback_response, token_count, out, calls, fail_tc,
                 was_working, ncalls>>
  /\ UNCHANGED initVars /\ UNCHANGED working
  /\ UNCHANGED notLLM

\* _generate_groq_stream: requests.post and the status check
GroqPost ==
  /\ client = "unified" /\ provider = "groq" /\ gpc = "post"
  /\ calls' = Append(calls, "groq")
  /\ \E r \in {"200", "err", "timeout", "exc"} :
       \/ /\ r = "200"
          /\ gpc' = "stream"
          /\ UNCHANGED <<out, fail_tc>>
       \/ /\ r # "200"
          /\ Fail(TRUE)
  /\ UNCHANGED <<fallback_response, token_count, was_working, ncalls>>
  /\ UNCHANGED initVars /\ UNCHANGED working
  /\ UNCHANGED notLLM

\* _generate_groq_stream: one turn of "for line in response.iter_lines()"
GroqLine ==
  /\ client = "unified" /\ provider = "groq" /\ gpc = "stream"
  /\ \E ev \in {"content", "nocontent", "junk", "done", "eof", "exc"} :
       \/ /\ ev = "content"
          /\ YieldToken
          /\ UNCHANGED <<gpc, fail_tc>>
       \/ /\ ev \in {"nocontent", "junk"}
          /\ UNCHANGED <<gpc, fail_tc, token_count, out>>
       \/ /\ ev \in {"done", "eof"}
          /\ gpc' = "end"
          /\ UNCHANGED <<fail_tc, token_count, out>>
       \/ /\ ev = "exc"
          /\ Fail(TRUE)
          /\ UNCHANGED token_count
  /\ UNCHANGED <<fallback_response, calls, was_working, ncalls>>
  /\ UNCHANGED initVars /\ UNCHANGED working
  /\ UNCHANGED notLLM

\* _generate_ollama_stream: requests.post and the status check
UnifiedOllamaPost ==
  /\ client = "unified" /\ provider = "ollama" /\ gpc = "post"
  /\ calls' = Append(calls, "ollama")
  /\ \E r \in {"200", "err", "exc"} :
       \/ /\ r = "200"
          /\ gpc' = "stream"
          /\ UNCHANGED <<out, fail_tc>>
       \/ /\ r # "200"
          /\ Fail(TRUE)
  /\ UNCHANGED <<fallback_response, token_count, was_working, ncalls>>
  /\ UNCHANGED initVars /\ UNCHANGED working
  /\ UNCHANGED notLLM

\* the body of the Ollama JSON-lines loop, shared by _generate_ollama_stream
\* and OllamaClient.generate_stream (the two loops are the same code)
OllamaRecord(ev) ==
  \/ /\ ev = "error"
     /\ Fail(token_count = 0)
     /\ UNCHANGED token_count
  \/ /\ ev = "response"
     /\ YieldToken
     /\ UNCHANGED <<gpc, fail_tc>>
  \/ /\ ev = "response_done"
     /\ YieldToken
     /\ gpc' = "end"
     /\ UNCHANGED fail_tc
  \/ /\ ev = "done"
     /\ gpc' = "end"
     /\ UNCHANGED <<fail_tc, token_count, out>>
  \/ /\ ev = "junk"
     /\ UNCHANGED <<gpc, fail_tc, token_count, out>>
  \/ /\ ev = "eof"
     /\ out' = IF token_count = 0 THEN YieldFallback(out) ELSE out
     /\ gpc' = "end"
     /\ UNCHANGED <<fail_tc, token_count>>

OllamaEvents == {"error", "response", "response_done", "done", "junk", "eof"}

\* _generate_ollama_stream: one turn of "for line in response.iter_lines()"
UnifiedOllamaLine ==
  /\ client = "unified" /\ provider = "ollama" /\ gpc = "stream"
  /\ \E ev \in OllamaEvents \cup {"exc"} :
       \/ /\ ev \in OllamaEvents
          /\ OllamaRecord(ev)
       \/ /\ ev = "exc"
          /\ Fail(TRUE)
          /\ UNCHANGED token_count
  /\ UNCHANGED <<fallback_response, calls, was_working, ncalls>>
  /\ UNCHANGED initVars /\ UNCHANGED working
  /\ UNCHANGED notLLM

\* OllamaClient.generate_stream: requests.post and the status checks
OllamaClientPost ==
  /\ client = "ollama" /\ gpc = "post"
  /\ calls' = Append(calls, "ollama")
  /\ \E r \in {"200", "500", "err", "timeout", "connerr", "exc"} :
       \/ /\ r = "200"
          /\ gpc' = "stream"
          /\ UNCHANGED <<out, fail_tc, working>>
       \/ /\ r # "200"
          /\ Fail(TRUE)
          /\ working' = IF r = "connerr" THEN FALSE ELSE working
  /\ UNCHANGED <<fallback_response, token_count, was_working, ncalls>>
  /\ UNCHANGED initVars
  /\ UNCHANGED notLLM

\* OllamaClient.generate_stream: one turn of "for line in response.iter_lines()"
OllamaClientLine ==
  /\ client = "ollama" /\ gpc = "stream"
  /\ \E ev \in OllamaEvents \cup {"timeout", "connerr", "exc"} :
       \/ /\ ev \in OllamaEvents
          /\ OllamaRecord(ev)
          /\ UNCHANGED working
       \/ /\ ev \in {"timeout", "connerr", "exc"}
          /\ Fail(TRUE)
          /\ working' = IF ev = "connerr" THEN FALSE ELSE working
          /\ UNCHANGED token_count
  /\ UNCHANGED <<fallback_response, calls, was_working, ncalls>>
  /\ UNCHANGED initVars
  /\ UNCHANGED notLLM

LLMNext ==
  \/ InitGroq
  \/ SkipGroq
  \/ InitOllama
  \/ OllamaTestConnection
  \/ GenerateStream
  \/ GenerateStreamReturn
  \/ GroqPost
  \/ GroqLine
  \/ UnifiedOllamaPost
  \/ UnifiedOllamaLine
  \/ OllamaClientPost
  \/ OllamaClientLine


(***************************************************************************)
(* Claims about the LLM clients (checked under SpecLLM)                    *)
(***************************************************************************)
TestNames == {tests[i].name : i \in 1..Len(tests)}

Passed(n) == \E i \in 1..Len(tests) : tests[i].name = n /\ tests[i].ok

\* C1: when the active provider fails during generate_stream before any token
\* has been yielded, the call is retried exactly once against the other
\* provider, and the canned fallback is yielded only after that retry failed
\* too: a finished call that failed at zero tokens has made exactly two
\* provider calls, to two different providers.
C1_RetryOnceBeforeFallback ==
  (gpc = "end" /\ was_working /\ fail_tc = 0) =>
     (Len(calls) = 2 /\ calls[1] # calls[2])

\* C2: when a provider fails after at least one token has been yielded, no
\* further fragment (in particular not the canned fallback) is yielded after
\* the failure and no other provider is called.
C2_NoFragmentAfterLateFailure ==
  (gpc = "end" /\ fail_tc >= 1) =>
     (Len(out) = fail_tc /\ Len(calls) = 1)

\* C8: construction of UnifiedLLMClient is Preferred -> Fallback ->
\* Unavailable: the Groq test runs first exactly when Groq is preferred and a
\* key exists, the Ollama test runs exactly when Groq was not selected, the
\* client is Unavailable (working false, no provider) exactly when every test
\* it ran failed, and otherwise its provider is the first test that passed.
C8_ConstructionStateMachine ==
  (client = "unified" /\ ipc = "done") =>
     /\ Len(tests) <= 2
     /\ (prefer_groq /\ has_key) <=> (Len(tests) >= 1 /\ tests[1].name = "groq")
     /\ \A i \in 2..Len(tests) : tests[i].name = "ollama"
     /\ ("ollama" \in TestNames) <=> ~Passed("groq")
     /\ (working = FALSE) <=> (provider = "none")
     /\ (provider = "none") <=> (\A i \in 1..Len(tests) : ~tests[i].ok)
     /\ provider # "none" =>
          \E i \in 1..Len(tests) :
             /\ tests[i].ok /\ tests[i].name = provider
             /\ \A j \in 1..(i - 1) : ~tests[j].ok

\* the Groq test failed and the Ollama test selected the fallback provider
C8_Witness ==
  /\ client = "unified" /\ ipc = "done"
  /\ Len(tests) = 2 /\ ~tests[1].ok
  /\ provider = "ollama" /\ working

\* C9: whenever generation is fully unavailable for a question (the client
\* is Unavailable, or the provider failed or ended its stream with zero
\* tokens), the output of the call is the non-empty canned fallback, never an
\* empty response. The caller passes a non-empty fallback, as InterviewProfile
\* always does.
C9_FallbackWhenUnavailable ==
  (gpc = "end" /\ fallback_response = Canned
     /\ (~was_working \/ token_count = 0)) =>
     out = <<Canned>>

(***************************************************************************)
(* Transcription: transcribe_chunk (audio_transcriber.py) and              *)
(* TranscriptionService.transcribe_audio (backend/transcription_service.py)*)
(*                                                                         *)
(* A chunk is a sequence of mono samples; a sample is an integer number of *)
(* millionths of full scale, so that the threshold 1e-4 is 100.            *)
(***************************************************************************)
SilenceThreshold == 100

Samples == {0, 60, 100, -300}

RECURSIVE SumSq(_)
SumSq(a) == IF a = <<>> THEN 0 ELSE Head(a) * Head(a) + SumSq(Tail(a))

\* rms = np.sqrt(np.mean(np.square(audio))); rms < thr, for a non-empty chunk
RmsBelow(a, thr) == SumSq(a) < Len(a) * thr * thr

NoSpeech == "(no speech detected)"

TranscriptionFailed == "(transcription failed)"

\* What the engine does when called: it raises, or it returns segments. A
\* segment is its text ("" is a segment of white space only) and its
\* no_speech_prob in hundredths (-1: the key is absent).
EngineOutcomes ==
  { [exc |-> TRUE,  text |-> "", segments |-> <<>>],
    [exc |-> FALSE, text |-> "", segments |-> <<>>],
    [exc |-> FALSE, text |-> "", segments |-> <<[text |-> "", nsp |-> 90]>>],
    [exc |-> FALSE, text |-> "What is your experience?",
       segments |-> <<[text |-> "What is your experience?", nsp |-> 10]>>],
    [exc |-> FALSE, text |-> "Tell me about a project",
       segments |-> <<[text |-> "", nsp |-> 80],
                      [text |-> "Tell me about a project", nsp |-> -1]>>] }

\* " ".join(text_parts).strip() over the segments whose text is not blank;
\* the outcomes above hold at most one such segment
RECURSIVE JoinText(_)
JoinText(segs) ==
  IF segs = <<>> THEN ""
  ELSE IF Head(segs).text # "" THEN Head(segs).text
  ELSE JoinText(Tail(segs))

\* a variant of transcribe_chunk without the silence check
transcribe_chunk_without_silence_check(a, eng) ==
  IF eng.exc
  THEN [text |-> TranscriptionFailed, engine_called |-> TRUE]
  ELSE [text |-> IF JoinText(eng.segments) # ""
                 THEN JoinText(eng.segments) ELSE NoSpeech,
        engine_called |-> TRUE]

\* transcribe_chunk(model, audio_mono, input_rate): the returned string and
\* whether model.transcribe was called
transcribe_chunk(a, eng) ==
  IF RmsBelow(a, SilenceThreshold)
  THEN [text |-> NoSpeech, engine_called |-> FALSE]
  ELSE IF eng.exc
       THEN [text |-> TranscriptionFailed, engine_called |-> TRUE]
       ELSE [text |-> IF JoinText(eng.segments) # ""
                      THEN JoinText(eng.segments) ELSE NoSpeech,
             engine_called |-> TRUE]

RECURSIVE SumConf(_)
SumConf(segs) ==
  IF segs = <<>> THEN 0
  ELSE (IF Head(segs).nsp >= 0 THEN 100 - Head(segs).nsp ELSE 0)
       + SumConf(Tail(segs))

RECURSIVE CountConf(_)
CountConf(segs) ==
  IF segs = <<>> THEN 0
  ELSE (IF Head(segs).nsp >= 0 THEN 1 ELSE 0) + CountConf(Tail(segs))

\* TranscriptionService._calculate_confidence, in hundredths
CalculateConfidence(segs) ==
  IF segs = <<>> THEN 0
  ELSE IF CountConf(segs) > 0 THEN SumConf(segs) \div CountConf(segs)
  ELSE 50

\* TranscriptionService.transcribe_audio(audio_data): the returned dict and
\* whether self.model.transcribe was called
transcribe_audio(a, eng) ==
  IF Len(a) = 0
  THEN [text |-> "", confidence |-> 0, engine_called |-> FALSE]
  ELSE IF eng.exc
       THEN [text |-> "", confidence |-> 0, engine_called |-> TRUE]
       ELSE [text |-> eng.text,
             confidence |-> CalculateConfidence(eng.segments),
             engine_called |-> TRUE]

RECURSIVE SeqsUpTo(_, _)
SeqsUpTo(S, n) ==
  IF n = 0 THEN {<<>>}
  ELSE LET shorter == SeqsUpTo(S, n - 1)
       IN shorter \cup {Append(q, x) : q \in shorter, x \in S}

NoResult == [text |-> "", confidence |-> 0, engine_called |-> FALSE]

TrIdle ==
  /\ tr_audio = <<>> /\ tr_path = "none"
  /\ tr_result = NoResult /\ tr_engine_calls = 0 /\ tr_exc = FALSE
  /\ tr_segments = <<>>

TrInit ==
  /\ tr_audio \in SeqsUpTo(Samples, MaxLen)
  /\ tr_path = "none"
  /\ tr_result = NoResult /\ tr_engine_calls = 0 /\ tr_exc = FALSE
  /\ tr_segments = <<>>

\* a caller applies transcribe_chunk to a recorded chunk (never empty: the
\* recorders return at least one sample)
TranscribeChunk ==
  /\ tr_path = "none" /\ tr_audio # <<>>
  /\ \E eng \in EngineOutcomes :
       LET r == transcribe_chunk(tr_audio, eng)
       IN /\ tr_result' = [text |-> r.text, confidence |-> 0,
                           engine_called |-> r.engine_called]
          /\ tr_engine_calls' = tr_engine_calls + (IF r.engine_called THEN 1 ELSE 0)
          /\ tr_exc' = (r.engine_called /\ eng.exc)
          /\ tr_segments' = IF r.engine_called /\ ~eng.exc
                             THEN eng.segments ELSE <<>>
  /\ tr_path' = "chunk"
  /\ UNCHANGED tr_audio
  /\ UNCHANGED notTr

\* the WebSocket handler applies transcribe_audio to a batch
TranscribeAudio ==
  /\ tr_path = "none"
  /\ \E eng \in EngineOutcomes :
       LET r == transcribe_audio(tr_audio, eng)
       IN /\ tr_result' = r
          /\ tr_engine_calls' = tr_engine_calls + (IF r.engine_called THEN 1 ELSE 0)
          /\ tr_exc' = (r.engine_called /\ eng.exc)
          /\ tr_segments' = IF r.engine_called /\ ~eng.exc
                             THEN eng.segments ELSE <<>>
  /\ tr_path' = "service"
  /\ UNCHANGED tr_audio
  /\ UNCHANGED notTr

TrNext ==
  \/ TranscribeChunk
  \/ TranscribeAudio

\* C5: a non-empty chunk whose RMS is below 1e-4 never reaches the
\* transcription engine and gives an empty / no-speech result, on every
\* transcription path.
C5_SilenceNeverReachesEngine ==
  (tr_path # "none" /\ tr_audio # <<>> /\ RmsBelow(tr_audio, SilenceThreshold)) =>
     /\ tr_engine_calls = 0
     /\ tr_result.text \in {"", NoSpeech}

\* what the caller gets back
Returned(r) == [text |-> r.text, confidence |-> r.confidence]

\* the engine returns normally and hears nothing
HearsNothing(eng) == ~eng.exc /\ JoinText(eng.segments) = ""

\* the results a path returns for silent audio (one zero sample) and, on
\* the service path, for empty audio
SilenceResults(path) ==
  IF path = "chunk"
  THEN {[text |-> transcribe_chunk(<<0>>, eng).text, confidence |-> 0] :
          eng \in EngineOutcomes}
  ELSE {Returned(transcribe_audio(<<>>, eng)) : eng \in EngineOutcomes}
       \cup {Returned(transcribe_audio(<<0>>, eng)) :
               eng \in {e \in EngineOutcomes : HearsNothing(e)}}

\* C20: on every transcription path the result returned when the engine
\* raises is never equal to a result returned for silent or empty audio.
C20_FailureDistinctFromSilence ==
  (tr_path # "none" /\ tr_exc) =>
     Returned(tr_result) \notin SilenceResults(tr_path)

\* C24: when the engine returns a result without segments, the confidence
\* of the transcript is 0.5 (50 hundredths).
C24_NoSegmentsGivesNeutralConfidence ==
  (/\ tr_path = "service" /\ tr_result.engine_called /\ ~tr_exc
   /\ tr_segments = <<>>) =>
     tr_result.confidence = 50

(***************************************************************************)
(* run_interview_session, print_wrapped_response and the watch_for_space   *)
(* thread (main.py; main_enhanced.py holds the same loop)                  *)
(***************************************************************************)
\* chunks record_manual_control returns; <<0>> is np.zeros((1, 1)), returned
\* when no frame arrived
CLIAudio == {<<0>>, <<60, 60>>, <<-300, 100>>}

CLIIdle ==
  /\ cpc = "loop" /\ question_count = 0 /\ audio = <<0>> /\ text = ""
  /\ cycle_kind = "none" /\ windows = TRUE
  /\ stop_generation = FALSE /\ watchers = 0
  /\ received = 0 /\ shown = 0 /\ engine_reads = 0
  /\ cancel_k = -1 /\ reads_after_cancel = 0
  /\ response_kind = "none" /\ gen_for = <<>> /\ cli_engine_calls = 0

CLIInit ==
  /\ cpc = "loop" /\ question_count = 0 /\ audio = <<0>> /\ text = ""
  /\ cycle_kind = "none" /\ windows \in BOOLEAN
  /\ stop_generation = FALSE /\ watchers = 0
  /\ received = 0 /\ shown = 0 /\ engine_reads = 0
  /\ cancel_k = -1 /\ reads_after_cancel = 0
  /\ response_kind = "none" /\ gen_for = <<>> /\ cli_engine_calls = 0

tokenVars == <<received, shown, engine_reads, reads_after_cancel,
               response_kind>>

\* top of the loop: question_count += 1, record_manual_control, and the
\* "elapsed < 0.5" / "Recording failed" continue
RecordManualControl ==
  /\ cpc = "loop"
  /\ question_count < MaxQuestions
  /\ question_count' = question_count + 1
  /\ \E a \in CLIAudio, short \in BOOLEAN :
       /\ audio' = a
       /\ cpc' = IF short THEN "loop" ELSE "transcribe"
  /\ text' = "" /\ cycle_kind' = "none"
  /\ UNCHANGED <<windows, stop_generation, watchers, cancel_k, gen_for,
                 cli_engine_calls>>
  /\ UNCHANGED tokenVars
  /\ UNCHANGED notCLI

\* text = transcribe_chunk(...), then
\* "if not text or text == '(no speech detected)': continue"
TranscribeAndCheck ==
  /\ cpc = "transcribe"
  /\ \E eng \in EngineOutcomes :
       LET r == transcribe_chunk(audio, eng)
       IN /\ text' = r.text
          /\ cycle_kind' = IF ~r.engine_called THEN "silence"
                           ELSE IF eng.exc THEN "failed"
                           ELSE IF r.text = NoSpeech THEN "no_text"
                           ELSE "text"
          /\ cli_engine_calls' = cli_engine_calls + (IF r.engine_called THEN 1 ELSE 0)
          /\ cpc' = IF r.text = "" \/ r.text = NoSpeech THEN "loop" ELSE "generate"
  /\ UNCHANGED <<question_count, audio, windows, stop_generation, watchers,
                 cancel_k, gen_for>>
  /\ UNCHANGED tokenVars
  /\ UNCHANGED notCLI

\* stop_generation = threading.Event(); the watcher thread is started (it
\* ends at once where msvcrt is missing); print_wrapped_response is entered
StartGeneration ==
  /\ cpc = "generate"
  /\ stop_generation' = FALSE
  /\ watchers' = IF windows THEN watchers + 1 ELSE watchers
  /\ gen_for' = Append(gen_for, cycle_kind)
  /\ received' = 0 /\ shown' = 0 /\ engine_reads' = 0
  /\ cancel_k' = -1 /\ reads_after_cancel' = 0
  /\ response_kind' = "none"
  /\ cpc' = "next"
  /\ UNCHANGED <<question_count, audio, text, cycle_kind, windows,
                 cli_engine_calls>>
  /\ UNCHANGED notCLI

\* "for token in llm.generate_response_stream(...)": the loop resumes the
\* generator, which reads the next token from the engine, ends, or raises
NextToken ==
  /\ cpc = "next"
  /\ \E ev \in {"token", "end", "raise"} :
       \/ /\ ev = "token"
          /\ received < MaxTokens
          /\ received' = received + 1
          /\ engine_reads' = engine_reads + 1
          /\ reads_after_cancel' =
               IF stop_generation THEN reads_after_cancel + 1
               ELSE reads_after_cancel
          /\ cpc' = "check"
          /\ UNCHANGED response_kind
       \/ /\ ev = "end"
          /\ response_kind' = "tokens"
          /\ cpc' = "after"
          /\ UNCHANGED <<received, engine_reads, reads_after_cancel>>
       \/ /\ ev = "raise"
          /\ response_kind' = "fallback"
          /\ cpc' = "after"
          /\ UNCHANGED <<received, engine_reads, reads_after_cancel>>
  /\ UNCHANGED <<question_count, audio, text, cycle_kind, windows,
                 stop_generation, watchers, shown, cancel_k, gen_for,
                 cli_engine_calls>>
  /\ UNCHANGED notCLI

\* a variant of the loop body that handles the set flag as a failure: the
\* canned answer replaces the partial response
CheckFlagCancelAsError ==
  /\ cpc = "check"
  /\ IF stop_generation
     THEN /\ response_kind' = "fallback"
          /\ cpc' = "after"
          /\ UNCHANGED shown
     ELSE /\ shown' = shown + 1
          /\ cpc' = "next"
          /\ UNCHANGED response_kind
  /\ UNCHANGED <<question_count, audio, text, cycle_kind, windows,
                 stop_generation, watchers, received, engine_reads, cancel_k,
                 reads_after_cancel, gen_for, cli_engine_calls>>
  /\ UNCHANGED notCLI

\* the loop body: "if stop_generation.is_set(): break", else the token is
\* wrapped, printed and added to response_text
CheckFlag ==
  /\ cpc = "check"
  /\ IF stop_generation
     THEN /\ response_kind' = "tokens"
          /\ cpc' = "after"
          /\ UNCHANGED shown
     ELSE /\ shown' = shown + 1
          /\ cpc' = "next"
          /\ UNCHANGED response_kind
  /\ UNCHANGED <<question_count, audio, text, cycle_kind, windows,
                 stop_generation, watchers, received, engine_reads, cancel_k,
                 reads_after_cancel, gen_for, cli_engine_calls>>
  /\ UNCHANGED notCLI

\* print_wrapped_response has returned: the summary lines, then the loop
AfterResponse ==
  /\ cpc = "after"
  /\ cpc' = "loop"
  /\ UNCHANGED <<question_count, audio, text, cycle_kind, windows,
                 stop_generation, watchers, cancel_k, gen_for,
                 cli_engine_calls>>
  /\ UNCHANGED tokenVars
  /\ UNCHANGED notCLI

\* watch_for_space: the space key is hit while the flag is not set
WatcherSetsFlag ==
  /\ watchers > 0 /\ ~stop_generation
  /\ stop_generation' = TRUE
  /\ watchers' = watchers - 1
  /\ cancel_k' = IF cpc \in {"next", "check"} THEN received ELSE cancel_k
  /\ UNCHANGED <<cpc, question_count, audio, text, cycle_kind, windows,
                 gen_for, cli_engine_calls>>
  /\ UNCHANGED tokenVars
  /\ UNCHANGED notCLI

\* watch_for_space: "while not stop_generation.is_set()" finds the flag set
WatcherExits ==
  /\ watchers > 0 /\ stop_generation
  /\ watchers' = watchers - 1
  /\ UNCHANGED <<cpc, question_count, audio, text, cycle_kind, windows,
                 stop_generation, cancel_k, gen_for, cli_engine_calls>>
  /\ UNCHANGED tokenVars
  /\ UNCHANGED notCLI

CLINext ==
  \/ RecordManualControl
  \/ TranscribeAndCheck
  \/ StartGeneration
  \/ NextToken
  \/ CheckFlag
  \/ AfterResponse
  \/ WatcherSetsFlag
  \/ WatcherExits

\* C3: if the watcher sets the cancel flag after the consumer has received
\* token k, the consumer receives at most k+1 tokens and no further token is
\* read from the generation engine after the flag was set.
C3_CancelStopsEngineReads ==
  (cancel_k >= 0) =>
     (received <= cancel_k + 1 /\ reads_after_cancel = 0)

\* C4: answer generation for a capture cycle starts only after transcription
\* produced real text: a cycle whose transcription was silence, empty, or an
\* engine failure never leads to a generation call.
C4_GenerationOnlyAfterRealText ==
  \A i \in 1..Len(gen_for) : gen_for[i] = "text"

C27_WatcherEndsWithGeneration ==
  /\ watchers <= 1
  /\ (cpc \in {"loop", "transcribe", "generate"} /\ watchers > 0) =>
        stop_generation

(***************************************************************************)
(* web_server.py: /api/initialize, /api/start-recording,                   *)
(* /api/stop-recording and the audio callback. The Flask server runs       *)
(* threaded, so handlers run concurrently with each other and with the     *)
(* callback thread of the input stream; every read or write of the shared  *)
(* InterviewState is a step.                                               *)
(***************************************************************************)
Handlers == {"h1", "h2"}

RecIdle ==
  /\ device_pick = FALSE /\ is_recording = FALSE /\ recording_event = FALSE
  /\ audio_frames = <<>> /\ stream = FALSE /\ streams_opened = 0
  /\ hpc = [h \in Handlers |-> "idle"]
  /\ resp = [h \in Handlers |-> "none"]
  /\ cb_pc = "idle" /\ cb_frame = 0 /\ next_frame = 0
  /\ epoch = 0 /\ delivered = <<>>
  /\ my_epoch = [h \in Handlers |-> 0]
  /\ chunks = <<>> /\ active = 0 /\ starts = 0

RecInit == RecIdle

reqVars == <<hpc, resp>>

ghostVars == <<epoch, delivered, my_epoch, chunks, active, starts>>

cbVars == <<cb_pc, cb_frame, next_frame>>

Goto(h, pc) == hpc' = [hpc EXCEPT ![h] = pc]

Respond(h, r) ==
  /\ hpc' = [hpc EXCEPT ![h] = "idle"]
  /\ resp' = [resp EXCEPT ![h] = r]

\* initialize(): the profile, the models and state.device_pick are set
Initialize(h) ==
  /\ hpc[h] = "idle" /\ ~device_pick
  /\ device_pick' = TRUE
  /\ Respond(h, "Profile loaded successfully")
  /\ UNCHANGED <<is_recording, recording_event, audio_frames, stream,
                 streams_opened>>
  /\ UNCHANGED cbVars /\ UNCHANGED ghostVars
  /\ UNCHANGED notRec

\* start_recording: "if state.is_recording" and "if state.device_pick is None"
StartCheck(h) ==
  /\ hpc[h] = "idle"
  /\ starts < MaxStarts
  /\ IF is_recording THEN Respond(h, "Already recording") /\ UNCHANGED starts
     ELSE IF ~device_pick THEN Respond(h, "Not initialized") /\ UNCHANGED starts
     ELSE Goto(h, "s_clear") /\ UNCHANGED resp /\ starts' = starts + 1
  /\ UNCHANGED <<device_pick, is_recording, recording_event, audio_frames,
                 stream, streams_opened>>
  /\ UNCHANGED cbVars
  /\ UNCHANGED <<epoch, delivered, my_epoch, chunks, active>>
  /\ UNCHANGED notRec

\* start_recording: "state.audio_frames = []"
StartClear(h) ==
  /\ hpc[h] = "s_clear"
  /\ audio_frames' = <<>>
  /\ Goto(h, "s_stream") /\ UNCHANGED resp
  /\ UNCHANGED <<device_pick, is_recording, recording_event, stream,
                 streams_opened>>
  /\ UNCHANGED cbVars /\ UNCHANGED ghostVars
  /\ UNCHANGED notRec

\* start_recording: "if state.stream is None"
StartStreamCheck(h) ==
  /\ hpc[h] = "s_stream"
  /\ Goto(h, IF stream THEN "s_set" ELSE "s_open") /\ UNCHANGED resp
  /\ UNCHANGED <<device_pick, is_recording, recording_event, audio_frames,
                 stream, streams_opened>>
  /\ UNCHANGED cbVars /\ UNCHANGED ghostVars
  /\ UNCHANGED notRec

\* start_recording: "state.stream = sd.InputStream(...); state.stream.start()",
\* or the exception handler when the device cannot be opened
StartOpen(h) ==
  /\ hpc[h] = "s_open"
  /\ \E ok \in BOOLEAN :
       IF ok
       THEN /\ stream' = TRUE
            /\ streams_opened' = streams_opened + 1
            /\ Goto(h, "s_set") /\ UNCHANGED resp
       ELSE /\ Respond(h, "error 500")
            /\ UNCHANGED <<stream, streams_opened>>
  /\ UNCHANGED <<device_pick, is_recording, recording_event, audio_frames>>
  /\ UNCHANGED cbVars /\ UNCHANGED ghostVars
  /\ UNCHANGED notRec

\* start_recording: "state.recording_event.set()"
StartSetEvent(h) ==
  /\ hpc[h] = "s_set"
  /\ recording_event' = TRUE
  /\ IF recording_event
     THEN UNCHANGED <<epoch, delivered>>
     ELSE /\ epoch' = epoch + 1
          /\ delivered' = Append(delivered, <<>>)
  /\ Goto(h, "s_flag") /\ UNCHANGED resp
  /\ UNCHANGED <<device_pick, is_recording, audio_frames, stream,
                 streams_opened, my_epoch, chunks, active, starts>>
  /\ UNCHANGED cbVars
  /\ UNCHANGED notRec

\* start_recording: "state.is_recording = True" and the success response
StartSetFlag(h) ==
  /\ hpc[h] = "s_flag"
  /\ is_recording' = TRUE
  /\ active' = active + 1
  /\ Respond(h, "Recording started")
  /\ UNCHANGED <<device_pick, recording_event, audio_frames, stream,
                 streams_opened, epoch, delivered, my_epoch, chunks, starts>>
  /\ UNCHANGED cbVars
  /\ UNCHANGED notRec

\* stop_recording: "if not state.is_recording"
StopCheck(h) ==
  /\ hpc[h] = "idle"
  /\ IF ~is_recording
     THEN Respond(h, "Not recording") /\ UNCHANGED active
     ELSE Goto(h, "t_clear") /\ UNCHANGED resp /\ active' = active - 1
  /\ UNCHANGED <<device_pick, is_recording, recording_event, audio_frames,
                 stream, streams_opened, epoch, delivered, my_epoch, chunks, starts>>
  /\ UNCHANGED cbVars
  /\ UNCHANGED notRec

\* stop_recording: "state.recording_event.clear()"
StopClearEvent(h) ==
  /\ hpc[h] = "t_clear"
  /\ recording_event' = FALSE
  /\ my_epoch' = [my_epoch EXCEPT ![h] = epoch]
  /\ Goto(h, "t_flag") /\ UNCHANGED resp
  /\ UNCHANGED <<device_pick, is_recording, audio_frames, stream,
                 streams_opened, epoch, delivered, chunks, active, starts>>
  /\ UNCHANGED cbVars
  /\ UNCHANGED notRec

\* stop_recording: "state.is_recording = False"
StopClearFlag(h) ==
  /\ hpc[h] = "t_flag"
  /\ is_recording' = FALSE
  /\ Goto(h, "t_read") /\ UNCHANGED resp
  /\ UNCHANGED <<device_pick, recording_event, audio_frames, stream,
                 streams_opened>>
  /\ UNCHANGED cbVars /\ UNCHANGED ghostVars
  /\ UNCHANGED notRec

\* stop_recording after "time.sleep(0.1)" (a callback that was running has
\* finished by then): "if not state.audio_frames", else the chunk is
\* np.concatenate(state.audio_frames) and is transcribed
StopRead(h) ==
  /\ hpc[h] = "t_read"
  /\ cb_pc = "idle"
  /\ IF audio_frames = <<>>
     THEN /\ Respond(h, "No audio recorded")
          /\ UNCHANGED chunks
     ELSE /\ chunks' = Append(chunks, [frames |-> audio_frames,
                                       epoch |-> my_epoch[h]])
          /\ Respond(h, "transcribed")
  /\ UNCHANGED <<device_pick, is_recording, recording_event, audio_frames,
                 stream, streams_opened, epoch, delivered, my_epoch, active, starts>>
  /\ UNCHANGED cbVars
  /\ UNCHANGED notRec

\* audio_callback: a hardware buffer arrives; "if state.recording_event.is_set()"
CallbackCheck ==
  /\ stream /\ cb_pc = "idle"
  /\ next_frame < MaxFrames
  /\ next_frame' = next_frame + 1
  /\ IF recording_event
     THEN /\ cb_pc' = "append"
          /\ cb_frame' = next_frame + 1
          /\ delivered' = [delivered EXCEPT ![epoch] = Append(@, next_frame + 1)]
     ELSE /\ UNCHANGED <<cb_pc, cb_frame, delivered>>
  /\ UNCHANGED <<device_pick, is_recording, recording_event, audio_frames,
                 stream, streams_opened, epoch, my_epoch, chunks, active, starts>>
  /\ UNCHANGED reqVars
  /\ UNCHANGED notRec

\* audio_callback: "state.audio_frames.append(indata.copy())"
CallbackAppend ==
  /\ cb_pc = "append"
  /\ audio_frames' = Append(audio_frames, cb_frame)
  /\ cb_pc' = "idle"
  /\ UNCHANGED <<cb_frame, next_frame>>
  /\ UNCHANGED <<device_pick, is_recording, recording_event, stream,
                 streams_opened>>
  /\ UNCHANGED reqVars /\ UNCHANGED ghostVars
  /\ UNCHANGED notRec

RecNext ==
  \/ \E h \in Handlers : Initialize(h)
  \/ \E h \in Handlers : StartCheck(h)
  \/ \E h \in Handlers : StartClear(h)
  \/ \E h \in Handlers : StartStreamCheck(h)
  \/ \E h \in Handlers : StartOpen(h)
  \/ \E h \in Handlers : StartSetEvent(h)
  \/ \E h \in Handlers : StartSetFlag(h)
  \/ \E h \in Handlers : StopCheck(h)
  \/ \E h \in Handlers : StopClearEvent(h)
  \/ \E h \in Handlers : StopClearFlag(h)
  \/ \E h \in Handlers : StopRead(h)
  \/ CallbackCheck
  \/ CallbackAppend

\* C6: under any interleaving of concurrent start-recording and
\* stop-recording requests, at most one recording is active (started and not
\* yet stopped) and at most one input stream is ever opened.
C6_OneRecordingOneStream ==
  /\ active <= 1
  /\ streams_opened <= 1

\* C7: the chunk produced by stop consists of exactly the frames the
\* callback delivered while the recording flag was set for that recording,
\* in arrival order.
C7_ChunkIsFramesOfItsRecording ==
  \A i \in 1..Len(chunks) :
     /\ chunks[i].epoch >= 1
     /\ chunks[i].frames = delivered[chunks[i].epoch]

(***************************************************************************)
(* web_server.py: /api/generate-response and its inner generator           *)
(* generate(). state.llm.generate_response_stream is the profile's token   *)
(* generator: at each step it yields a token, ends, or raises. A frame is    *)
(* the JSON object written after "data: ".                                 *)
(***************************************************************************)
Tokens == {"a", "b", " "}

TokenFrame(t) == [kind |-> "token", token |-> t]

DoneFrame == [kind |-> "done", token |-> ""]

ErrorFrame == [kind |-> "error", token |-> ""]

SSEIdle ==
  /\ sse_pc = "request" /\ sse_question = "" /\ sse_llm = FALSE
  /\ sse_status = 0 /\ sse_frames = <<>> /\ gen_outcome = "none"

SSEInit ==
  /\ sse_pc = "request"
  /\ sse_question \in {"", "q"}
  /\ sse_llm \in BOOLEAN
  /\ sse_status = 0 /\ sse_frames = <<>> /\ gen_outcome = "none"

\* generate_response: "if not question", "if state.llm is None", else
\* "return Response(generate(), mimetype='text/event-stream')"
GenerateResponse ==
  /\ sse_pc = "request"
  /\ IF sse_question = "" \/ ~sse_llm
     THEN sse_pc' = "rejected" /\ sse_status' = 400
     ELSE sse_pc' = "streaming" /\ sse_status' = 200
  /\ UNCHANGED <<sse_question, sse_llm, sse_frames, gen_outcome>>
  /\ UNCHANGED notSSE

\* generate: the for loop receives a token and yields its frame
GenerateToken ==
  /\ sse_pc = "streaming"
  /\ Len(sse_frames) < MaxTokens
  /\ \E t \in Tokens : sse_frames' = Append(sse_frames, TokenFrame(t))
  /\ UNCHANGED <<sse_pc, sse_question, sse_llm, sse_status, gen_outcome>>
  /\ UNCHANGED notSSE

\* a variant of GenerateError that yields the done frame after the error frame
GenerateErrorThenDone ==
  /\ sse_pc = "streaming"
  /\ sse_frames' = sse_frames \o <<ErrorFrame, DoneFrame>>
  /\ sse_pc' = "finished"
  /\ gen_outcome' = "raised"
  /\ UNCHANGED <<sse_question, sse_llm, sse_status>>
  /\ UNCHANGED notSSE

\* generate: the token generator is exhausted; the done frame is yielded
GenerateDone ==
  /\ sse_pc = "streaming"
  /\ sse_frames' = Append(sse_frames, DoneFrame)
  /\ sse_pc' = "finished"
  /\ gen_outcome' = "normal"
  /\ UNCHANGED <<sse_question, sse_llm, sse_status>>
  /\ UNCHANGED notSSE

\* generate: the token generator raises; "except Exception" yields the
\* error frame and the generator ends
GenerateError ==
  /\ sse_pc = "streaming"
  /\ sse_frames' = Append(sse_frames, ErrorFrame)
  /\ sse_pc' = "finished"
  /\ gen_outcome' = "raised"
  /\ UNCHANGED <<sse_question, sse_llm, sse_status>>
  /\ UNCHANGED notSSE

\* the client disconnects: the server closes generate() at its current
\* yield (GeneratorExit is not an Exception, so nothing more is yielded)
ClientDisconnect ==
  /\ sse_pc = "streaming"
  /\ sse_pc' = "closed"
  /\ UNCHANGED <<sse_question, sse_llm, sse_status, sse_frames, gen_outcome>>
  /\ UNCHANGED notSSE

SSENext ==
  \/ GenerateResponse
  \/ GenerateToken
  \/ GenerateDone
  \/ GenerateError
  \/ ClientDisconnect

AllTokensBefore(n) == \A i \in 1..(n - 1) : sse_frames[i].kind = "token"

\* C10 as stated: every stream that runs to its end is a sequence of token
\* frames terminated by a done frame.
C10_StreamEndsWithDone ==
  (sse_pc = "finished") =>
     /\ sse_frames # <<>>
     /\ AllTokensBefore(Len(sse_frames))
     /\ sse_frames[Len(sse_frames)].kind = "done"

\* C10 amended: every stream that runs to its end is a sequence of token
\* frames terminated by exactly one terminal frame, which is the done frame
\* when the token generator ended normally and the error frame (with no
\* done frame) when it raised; no frame follows the terminal frame, and a
\* stream that has not ended holds token frames only.
C10_StreamEndsWithTerminalFrame ==
  /\ (sse_pc = "finished") =>
        /\ sse_frames # <<>>
        /\ AllTokensBefore(Len(sse_frames))
        /\ sse_frames[Len(sse_frames)].kind =
             (IF gen_outcome = "normal" THEN "done" ELSE "error")
  /\ (sse_pc # "finished") => AllTokensBefore(Len(sse_frames) + 1)

C10_Witness ==
  /\ sse_pc = "finished" /\ gen_outcome = "raised"
  /\ Len(sse_frames) >= 2
  /\ sse_frames[Len(sse_frames)] = ErrorFrame

(***************************************************************************)
(* src/core/audio_device_util.py: pick_system_audio_device, and its CLI    *)
(* caller show_startup_info / main. A device is what sd.query_devices      *)
(* reports plus what its tests would observe: wasapi_out (host API is      *)
(* WASAPI and max_output_channels > 0), lb_name (the name matches the      *)
(* loopback name pattern), lb_rms (the RMS the loopback capture test        *)
(* measures, in units of 1e-7; -1: the stream raised or gave no frame),    *)
(* has_input (max_input_channels > 0), virtual_name (the name matches the  *)
(* virtual device pattern), opens (an input stream on it opens).           *)
(* Indices are 0-based as in the code: device i is devices[i + 1].         *)
(***************************************************************************)
LoopbackNoiseFloor == 10

RmsLevels == {-1, 0, 10, 11}

OutputParts ==
  {[wasapi_out |-> FALSE, lb_name |-> FALSE, lb_rms |-> -1]} \cup
  [wasapi_out : {TRUE}, lb_name : BOOLEAN, lb_rms : RmsLevels]

InputParts ==
  {[has_input |-> FALSE, virtual_name |-> FALSE, opens |-> FALSE]} \cup
  [has_input : {TRUE}, virtual_name : BOOLEAN, opens : BOOLEAN]

DeviceKinds ==
  {[wasapi_out |-> o.wasapi_out, lb_name |-> o.lb_name, lb_rms |-> o.lb_rms,
    has_input |-> i.has_input, virtual_name |-> i.virtual_name,
    opens |-> i.opens] : o \in OutputParts, i \in InputParts}

NoPick == [kind |-> "none", index |-> -1, wasapi_loopback |-> FALSE]

DevicePick(k, i, lb) == [kind |-> k, index |-> i, wasapi_loopback |-> lb]

\* a variant of _test_loopback_device that accepts RMS at the noise floor
test_loopback_device_at_floor(d) == d.lb_rms # -1 /\ d.lb_rms >= LoopbackNoiseFloor

\* _test_loopback_device: False on an exception or when no frame arrived,
\* else "rms > 1e-6"
test_loopback_device(d) == d.lb_rms # -1 /\ d.lb_rms > LoopbackNoiseFloor

\* _test_input_device
test_input_device(d) == d.opens

\* the devices the first loop tests
IsLoopbackCandidate(d) == d.wasapi_out /\ d.lb_name

\* the devices the second loop tests
IsVirtualCandidate(d) == d.has_input /\ d.virtual_name

RECURSIVE WorkingFrom(_, _, _)
\* the 0-based indices i >= from - 1, in list order, whose device passes
\* test number t (1: loopback loop, 2: virtual loop, 3: fallback loop)
WorkingFrom(devs, from, t) ==
  IF from > Len(devs) THEN <<>>
  ELSE LET d == devs[from]
           ok == CASE t = 1 -> IsLoopbackCandidate(d) /\ test_loopback_device(d)
                   [] t = 2 -> IsVirtualCandidate(d) /\ test_input_device(d)
                   [] OTHER -> d.has_input /\ test_input_device(d)
       IN (IF ok THEN <<from - 1>> ELSE <<>>) \o WorkingFrom(devs, from + 1, t)

working_loopbacks(devs) == WorkingFrom(devs, 1, 1)

working_virtuals(devs) == WorkingFrom(devs, 1, 2)

working_inputs(devs) == WorkingFrom(devs, 1, 3)

\* pick_system_audio_device when FORCE_DEVICE_INDEX is not a number
ScanPick(devs) ==
  IF working_loopbacks(devs) # <<>>
  THEN DevicePick("loopback", working_loopbacks(devs)[1], TRUE)
  ELSE IF working_virtuals(devs) # <<>>
  THEN DevicePick("virtual", working_virtuals(devs)[1], FALSE)
  ELSE IF working_inputs(devs) # <<>>
  THEN DevicePick("input", working_inputs(devs)[1], FALSE)
  ELSE DevicePick("default", 0, FALSE)

\* pick_system_audio_device when FORCE_DEVICE_INDEX is the number i
ForcedPick(devs, i) ==
  IF i + 1 > Len(devs) THEN DevicePick("raised", -1, FALSE)
  ELSE DevicePick("forced", i, devs[i + 1].wasapi_out)

PickIdle ==
  /\ devices = <<>> /\ force_idx = -1
  /\ pick_pc = "start" /\ pick_result = NoPick

PickInit ==
  /\ devices \in SeqsUpTo(DeviceKinds, MaxDevices)
  /\ force_idx = -1
  /\ pick_pc = "start" /\ pick_result = NoPick

\* show_startup_info calls the picker; FORCE_DEVICE_INDEX is not set
PickScan ==
  /\ pick_pc = "start"
  /\ pick_result' = ScanPick(devices)
  /\ pick_pc' = "picked"
  /\ UNCHANGED <<devices, force_idx>>
  /\ UNCHANGED notPick

\* show_startup_info calls the picker; FORCE_DEVICE_INDEX is set to i
PickForced ==
  /\ pick_pc = "start"
  /\ \E i \in 0..MaxDevices :
       /\ force_idx' = i
       /\ pick_result' = ForcedPick(devices, i)
  /\ pick_pc' = "picked"
  /\ UNCHANGED devices
  /\ UNCHANGED notPick

\* show_startup_info goes on with the returned device and main starts
\* run_interview_session
StartupReady ==
  /\ pick_pc = "picked" /\ pick_result.kind # "raised"
  /\ pick_pc' = "ready"
  /\ UNCHANGED <<devices, force_idx, pick_result>>
  /\ UNCHANGED notPick

\* main: "except Exception as e: print(f'Error: {e}')", the program ends
MainReportsError ==
  /\ pick_pc = "picked" /\ pick_result.kind = "raised"
  /\ pick_pc' = "aborted"
  /\ UNCHANGED <<devices, force_idx, pick_result>>
  /\ UNCHANGED notPick

PickNext ==
  \/ PickScan
  \/ PickForced
  \/ StartupReady
  \/ MainReportsError

Dev(i) == devices[i + 1]

DevIndices == 0..(Len(devices) - 1)

\* no device can be opened: no loopback test passes and no input opens
NothingOpens ==
  \A i \in DevIndices :
     /\ ~(Dev(i).wasapi_out /\ test_loopback_device(Dev(i)))
     /\ ~(Dev(i).has_input /\ test_input_device(Dev(i)))

\* C12: when no audio device can be opened, the picker fails with
\* DeviceUnavailable instead of returning a device, and the caller reports
\* it and aborts the session.
C12_DeviceUnavailableWhenNothingOpens ==
  (pick_pc # "start" /\ force_idx = -1 /\ NothingOpens) =>
     (pick_result.kind = "raised" /\ pick_pc # "ready")

\* a loopback-capable output device whose capture test measures RMS above
\* the noise floor
WorkingLoopback(i) == Dev(i).wasapi_out /\ test_loopback_device(Dev(i))

WorkingVirtual(i) == IsVirtualCandidate(Dev(i)) /\ test_input_device(Dev(i))

WorkingInput(i) == Dev(i).has_input /\ test_input_device(Dev(i))

\* C13: for every device list the picker returns a working loopback device
\* if one exists, otherwise a working virtual input if one exists, otherwise
\* any working input device, otherwise the OS default; a lower-priority
\* device is never returned while a working higher-priority one is present.
C13_PriorityOrder ==
  (pick_pc # "start" /\ force_idx = -1) =>
     LET r == pick_result
     IN IF \E i \in DevIndices : WorkingLoopback(i)
        THEN r.kind = "loopback" /\ WorkingLoopback(r.index)
        ELSE IF \E i \in DevIndices : WorkingVirtual(i)
        THEN r.kind = "virtual" /\ WorkingVirtual(r.index)
        ELSE IF \E i \in DevIndices : WorkingInput(i)
        THEN r.kind = "input" /\ WorkingInput(r.index)
        ELSE r.kind = "default"

AboveFloor(i) == IsLoopbackCandidate(Dev(i)) /\ Dev(i).lb_rms > LoopbackNoiseFloor

NotAboveFloor(i) == IsLoopbackCandidate(Dev(i)) /\ Dev(i).lb_rms <= LoopbackNoiseFloor

Uppers == <<"A", "B", "C", "D", "E", "F", "G", "H", "I", "J", "K", "L", "M", "N", "O", "P", "Q", "R", "S", "T", "U", "V", "W", "X", "Y", "Z">>

Lowers == <<"a", "b", "c", "d", "e", "f", "g", "h", "i", "j", "k", "l", "m", "n", "o", "p", "q", "r", "s", "t", "u", "v", "w", "x", "y", "z">>

Digits == {"0", "1", "2", "3", "4", "5", "6", "7", "8", "9"}

Range(s) == {s[i] : i \in 1..Len(s)}

\* str.lower() on the upper-case letters
LowerMap ==
  [c \in Range(Uppers) |-> Lowers[CHOOSE i \in 1..Len(Uppers) : Uppers[i] = c]]

\* str.lower() on one character
LowerChar(c) == IF c \in DOMAIN LowerMap THEN LowerMap[c] ELSE c

\* str.lower()
Lower(t) == [i \in 1..Len(t) |-> LowerChar(t[i])]

WordChars == Range(Uppers) \cup Range(Lowers) \cup Digits \cup {"_"}

\* \w of the re module
IsWordChar(c) == c \in WordChars

IsSpace(c) == c \in {" "}

RECURSIVE LStrip(_)
LStrip(t) == IF t # <<>> /\ IsSpace(Head(t)) THEN LStrip(Tail(t)) ELSE t

RECURSIVE RStrip(_)
RStrip(t) ==
  IF t # <<>> /\ IsSpace(t[Len(t)]) THEN RStrip(SubSeq(t, 1, Len(t) - 1)) ELSE t

\* str.strip()
Strip(t) == RStrip(LStrip(t))

\* "keyword in text": kw occurs in t at position i
OccursAt(t, kw, i) ==
  /\ i + Len(kw) - 1 <= Len(t)
  /\ SubSeq(t, i, i + Len(kw) - 1) = kw

Contains(t, kw) == \E i \in 1..Len(t) : OccursAt(t, kw, i)

\* str.endswith('?')
EndsWithQuestionMark(t) == t # <<>> /\ t[Len(t)] = "?"

\* the alternatives of the four word patterns of question_patterns, each
\* compiled as \b(...)\b with re.IGNORECASE
question_patterns ==
  <<{<<"w", "h", "a", "t">>,
     <<"w", "h", "e", "n">>,
     <<"w", "h", "e", "r", "e">>,
     <<"w", "h", "o">>,
     <<"w", "h", "y">>,
     <<"h", "o", "w">>,
     <<"w", "h", "i", "c", "h">>},
    {<<"t", "e", "l", "l", " ", "m", "e">>,
     <<"d", "e", "s", "c", "r", "i", "b", "e">>,
     <<"e", "x", "p", "l", "a", "i", "n">>,
     <<"d", "i", "s", "c", "u", "s", "s">>,
     <<"t", "a", "l", "k", " ", "a", "b", "o", "u", "t">>},
    {<<"c", "a", "n", " ", "y", "o", "u">>,
     <<"c", "o", "u", "l", "d", " ", "y", "o", "u">>,
     <<"w", "o", "u", "l", "d", " ", "y", "o", "u">>,
     <<"w", "i", "l", "l", " ", "y", "o", "u">>},
    {<<"d", "o", " ", "y", "o", "u">>,
     <<"d", "i", "d", " ", "y", "o", "u">>,
     <<"h", "a", "v", "e", " ", "y", "o", "u">>,
     <<"a", "r", "e", " ", "y", "o", "u">>,
     <<"w", "e", "r", "e", " ", "y", "o", "u">>}>>

\* \b(w)\b matches at position i: w occurs there, ignoring case, with no
\* word character right before it and none right after it
WordAt(t, w, i) ==
  /\ OccursAt(Lower(t), w, i)
  /\ (i = 1 \/ ~IsWordChar(t[i - 1]))
  /\ (i + Len(w) - 1 = Len(t) \/ ~IsWordChar(t[i + Len(w)]))

\* pattern.search(text) for \b(w)\b
WordSearch(t, w) == \E i \in 1..Len(t) : WordAt(t, w, i)

\* pattern.search(text) for compiled pattern number p; the fifth is \?$
PatternSearch(t, p) ==
  IF p = 5 THEN EndsWithQuestionMark(t)
  ELSE \E w \in question_patterns[p] : WordSearch(t, w)

NumPatterns == 5

\* a variant of Matches that counts every occurrence of a word pattern
MatchesEveryOccurrence(t) ==
  Cardinality({pi \in (1..4) \X (1..Len(t)) :
                 \E w \in question_patterns[pi[1]] : WordAt(t, w, pi[2])})
  + (IF EndsWithQuestionMark(t) THEN 1 ELSE 0)

\* "for pattern in self.compiled_patterns: if pattern.search(text): matches += 1"
Matches(t) == Cardinality({p \in 1..NumPatterns : PatternSearch(t, p)})

\* a variant of behavioral_keywords without 'experience with'
behavioral_keywords_without_experience ==
  <<<<"t", "e", "l", "l", " ", "m", "e", " ", "a", "b", "o", "u", "t", " ", "a", " ", "t", "i", "m", "e">>,
    <<"d", "e", "s", "c", "r", "i", "b", "e", " ", "a", " ", "s", "i", "t", "u", "a", "t", "i", "o", "n">>,
    <<"g", "i", "v", "e", " ", "m", "e", " ", "a", "n", " ", "e", "x", "a", "m", "p", "l", "e">>,
    <<"c", "h", "a", "l", "l", "e", "n", "g", "e", " ", "y", "o", "u", " ", "f", "a", "c", "e", "d">>,
    <<"c", "o", "n", "f", "l", "i", "c", "t">>,
    <<"t", "e", "a", "m">>,
    <<"l", "e", "a", "d", "e", "r", "s", "h", "i", "p">>>>

behavioral_keywords ==
  <<<<"t", "e", "l", "l", " ", "m", "e", " ", "a", "b", "o", "u", "t", " ", "a", " ", "t", "i", "m", "e">>,
    <<"d", "e", "s", "c", "r", "i", "b", "e", " ", "a", " ", "s", "i", "t", "u", "a", "t", "i", "o", "n">>,
    <<"g", "i", "v", "e", " ", "m", "e", " ", "a", "n", " ", "e", "x", "a", "m", "p", "l", "e">>,
    <<"e", "x", "p", "e", "r", "i", "e", "n", "c", "e", " ", "w", "i", "t", "h">>,
    <<"c", "h", "a", "l", "l", "e", "n", "g", "e", " ", "y", "o", "u", " ", "f", "a", "c", "e", "d">>,
    <<"c", "o", "n", "f", "l", "i", "c", "t">>,
    <<"t", "e", "a", "m">>,
    <<"l", "e", "a", "d", "e", "r", "s", "h", "i", "p">>>>

technical_keywords ==
  <<<<"h", "o", "w", " ", "d", "o", "e", "s">>,
    <<"e", "x", "p", "l", "a", "i", "n">>,
    <<"i", "m", "p", "l", "e", "m", "e", "n", "t">>,
    <<"a", "l", "g", "o", "r", "i", "t", "h", "m">>,
    <<"s", "y", "s", "t", "e", "m", " ", "d", "e", "s", "i", "g", "n">>,
    <<"a", "r", "c", "h", "i", "t", "e", "c", "t", "u", "r", "e">>,
    <<"c", "o", "d", "e">>,
    <<"d", "a", "t", "a", "b", "a", "s", "e">>,
    <<"a", "p", "i">>,
    <<"p", "e", "r", "f", "o", "r", "m", "a", "n", "c", "e">>>>

\* a variant of _determine_type that scans the technical list first
determine_type_technical_first(t) ==
  LET text_lower == Lower(t)
  IN IF \E k \in 1..Len(technical_keywords) :
           Contains(text_lower, technical_keywords[k])
     THEN "technical"
     ELSE IF \E k \in 1..Len(behavioral_keywords) :
                Contains(text_lower, behavioral_keywords[k])
     THEN "behavioral"
     ELSE "general"

\* _determine_type
determine_type(t) ==
  LET text_lower == Lower(t)
  IN IF \E k \in 1..Len(behavioral_keywords) :
           Contains(text_lower, behavioral_keywords[k])
     THEN "behavioral"
     ELSE IF \E k \in 1..Len(technical_keywords) :
                Contains(text_lower, technical_keywords[k])
     THEN "technical"
     ELSE "general"

MinTextLen == 5

Min(a, b) == IF a <= b THEN a ELSE b

\* a variant of TooShort without the length test
TooShortEmptyOnly(t0) == t0 = <<>>

\* "if not text or len(text.strip()) < 5"
TooShort(t0) == t0 = <<>> \/ Len(Strip(t0)) < MinTextLen

\* a variant of IsQuestionFlag that needs two matches
IsQuestionFlagTwoMatches(t, matches) == matches >= 2

\* "is_question = matches >= 1 or text.endswith('?')"
IsQuestionFlag(t, matches) == matches >= 1 \/ EndsWithQuestionMark(t)

\* "confidence = min(matches / 2.0, 1.0)", in halves: 2 stands for 1.0
Confidence(matches) == Min(matches, 2)

\* is_question; type "null" is None
is_question(t0) ==
  IF TooShort(t0)
  THEN [is_question |-> FALSE, confidence |-> 0, type |-> "null"]
  ELSE LET t == Strip(t0)
           matches == Matches(t)
           confidence == Confidence(matches)
           question_type == determine_type(t)
           isq == IsQuestionFlag(t, matches)
       IN [is_question |-> isq,
           confidence |-> IF isq THEN confidence ELSE 0,
           type |-> IF isq THEN question_type ELSE "null"]

\* the pieces the input texts are put together from
Pieces ==
  {<<"w", "h", "a", "t">>,
   <<"W", "h", "y">>,
   <<" ">>,
   <<"?">>,
   <<"t", "e", "a", "m">>,
   <<"e", "x", "p", "l", "a", "i", "n">>,
   <<"w", "h", "a", "t", "e", "v", "e", "r">>,
   <<"a", "p", "i">>,
   <<"x">>,
   <<"d", "o", " ", "y", "o", "u">>}

RECURSIVE Concat(_)
Concat(ps) == IF ps = <<>> THEN <<>> ELSE Head(ps) \o Concat(Tail(ps))

KubernetesQuestion ==
  <<"W", "h", "a", "t", " ", "i", "s", " ", "y", "o", "u", "r", " ", "e", "x", "p", "e", "r", "i", "e", "n", "c", "e", " ", "w", "i", "t", "h", " ", "K", "u", "b", "e", "r", "n", "e", "t", "e", "s", "?">>

QDTexts ==
  {Concat(ps) : ps \in SeqsUpTo(Pieces, MaxPieces)} \cup {KubernetesQuestion}

NoSignal == [is_question |-> FALSE, confidence |-> -1, type |-> "none"]

QDIdle == qd_text = <<>> /\ qd_pc = "idle" /\ qd_result = NoSignal

QDInit == qd_text \in QDTexts /\ qd_pc = "idle" /\ qd_result = NoSignal

\* detector.is_question(text) is called
Classify ==
  /\ qd_pc = "idle"
  /\ qd_result' = is_question(qd_text)
  /\ qd_pc' = "done"
  /\ UNCHANGED qd_text
  /\ UNCHANGED notQD

QDNext ==
  \/ Classify

Trimmed == Strip(qd_text)

\* the probes that hit the trimmed text
ProbeHits == {p \in 1..5 : PatternSearch(Trimmed, p)}

HasKeyword(kws) == \E k \in 1..Len(kws) : Contains(Lower(Trimmed), kws[k])

\* C15: for all text whose trimmed length is less than 5, is_question
\* returns is_question=false, confidence=0 and type=null.
C15_ShortTextIsNoQuestion ==
  (qd_pc = "done" /\ Len(Trimmed) < 5) =>
     qd_result = [is_question |-> FALSE, confidence |-> 0, type |-> "null"]

C15_Witness ==
  /\ qd_pc = "done"
  /\ qd_text = <<"W", "h", "y", "?">>
  /\ ~qd_result.is_question /\ qd_result.type = "null"

\* C16 as stated: for all text ending in "?", is_question returns
\* is_question=true.
C16_QuestionMarkIsQuestion ==
  (qd_pc = "done" /\ EndsWithQuestionMark(qd_text)) => qd_result.is_question

\* C16 amended: for all text whose trimmed length is at least 5 and whose
\* trimmed form ends in "?", is_question returns is_question=true whichever
\* keyword probes match; text of trimmed length below 5 is not a question
\* even when it ends in "?".
C16_LongQuestionMarkIsQuestion ==
  (qd_pc = "done" /\ EndsWithQuestionMark(Trimmed)) =>
     (qd_result.is_question <=> Len(Trimmed) >= 5)

C16_Witness ==
  /\ qd_pc = "done"
  /\ qd_text = <<"t", "e", "a", "m", "?">>
  /\ ProbeHits = {5}
  /\ qd_result.is_question

\* C17: for text of trimmed length at least 5, each of the five probes
\* contributes at most 1 to match_count whatever the repeats; is_question
\* is true exactly when match_count >= 1 or the text ends with "?"; and
\* confidence is min(match_count / 2, 1) when is_question is true and 0
\* otherwise, so a detected question has confidence 0.5 or 1.
C17_MatchCountAndConfidence ==
  (qd_pc = "done" /\ Len(Trimmed) >= 5) =>
     LET match_count == Cardinality(ProbeHits)
     IN /\ qd_result.is_question <=>
             (match_count >= 1 \/ EndsWithQuestionMark(Trimmed))
        /\ qd_result.confidence =
             (IF qd_result.is_question THEN Min(match_count, 2) ELSE 0)
        /\ qd_result.is_question => qd_result.confidence \in {1, 2}

C17_Witness ==
  /\ qd_pc = "done"
  /\ qd_text = <<"w", "h", "a", "t", " ", "w", "h", "a", "t">>
  /\ qd_result.is_question /\ qd_result.confidence = 1

\* C18: the behavioral keyword list is scanned before the technical list
\* and the first list hit wins: a question containing both kinds of keyword
\* is 'behavioral', one containing only a technical keyword is 'technical',
\* one containing neither is 'general', and type is null whenever
\* is_question is false.
C18_TypeByOrderedKeywordLists ==
  (qd_pc = "done") =>
     qd_result.type =
        (IF ~qd_result.is_question THEN "null"
         ELSE IF HasKeyword(behavioral_keywords) THEN "behavioral"
         ELSE IF HasKeyword(technical_keywords) THEN "technical"
         ELSE "general")

C18_Witness ==
  /\ qd_pc = "done"
  /\ qd_text = <<"e", "x", "p", "l", "a", "i", "n", " ", "t", "e", "a", "m">>
  /\ HasKeyword(behavioral_keywords) /\ HasKeyword(technical_keywords)
  /\ qd_result.is_question /\ qd_result.type = "behavioral"

\* C19 as stated: classify("What is your experience with Kubernetes?")
\* returns is_question=true with confidence >= 0.5 and a type that is not
\* "behavioral".
C19_KubernetesNotBehavioral ==
  (qd_pc = "done" /\ qd_text = KubernetesQuestion) =>
     /\ qd_result.is_question
     /\ qd_result.confidence >= 1
     /\ qd_result.type # "behavioral"

\* C19 amended: classify("What is your experience with Kubernetes?")
\* returns is_question=true with confidence 1.0 (the probes "what" and "?"
\* hit) and type "behavioral", because the input contains the behavioral
\* keyword 'experience with'.
C19_KubernetesIsBehavioral ==
  (qd_pc = "done" /\ qd_text = KubernetesQuestion) =>
     qd_result = [is_question |-> TRUE, confidence |-> 2, type |-> "behavioral"]

C19_Witness ==
  /\ qd_pc = "done" /\ qd_text = KubernetesQuestion
  /\ ProbeHits = {1, 5}
  /\ qd_result.type = "behavioral"

(***************************************************************************)
(* backend/main.py: websocket_endpoint. Every session's handler is a       *)
(* coroutine on the one asyncio event loop of the server: a handler runs   *)
(* from one await to the next, and transcribe_audio and generate_answer    *)
(* are plain synchronous calls, so the handler that makes them keeps the   *)
(* loop (loop_owner) until they return. All services are module-level and  *)
(* shared by the sessions.                                                 *)
(***************************************************************************)
Sessions == {"s1", "s2"}

BatchChunks == 30

\* the transcripts the engine may return: nothing, a statement, a question
WSTexts ==
  {<<>>,
   <<"x", " ", "x", " ", "x">>,
   <<"e", "x", "p", "l", "a", "i", "n", " ", "t", "e", "a", "m">>}

WSIdle ==
  /\ registry = {} /\ loop_owner = "none"
  /\ wpc = [s \in Sessions |-> "new"]
  /\ inbox = [s \in Sessions |-> 0]
  /\ audio_buffer = [s \in Sessions |-> 0]
  /\ transcript_text = [s \in Sessions |-> <<>>]
  /\ events = [s \in Sessions |-> <<>>]

WSInit == WSIdle

LoopFree == loop_owner = "none"

WSGoto(s, pc) == wpc' = [wpc EXCEPT ![s] = pc]

SendEvent(s, e) == events' = [events EXCEPT ![s] = Append(@, e)]

\* connection_manager.connect, then the session, resume and job
\* description are loaded (before the try block)
WSConnect(s) ==
  /\ wpc[s] = "new" /\ LoopFree
  /\ \E outcome \in {"ok", "no_session", "no_data", "key_error"} :
       CASE outcome = "ok" ->
              /\ registry' = registry \cup {s}
              /\ WSGoto(s, "recv") /\ UNCHANGED events
         [] outcome \in {"no_session", "no_data"} ->
              /\ registry' = registry \ {s}
              /\ SendEvent(s, "error")
              /\ WSGoto(s, "closed")
         [] OTHER ->
              /\ registry' = registry \cup {s}
              /\ WSGoto(s, "raised") /\ UNCHANGED events
  /\ UNCHANGED <<loop_owner, inbox, audio_buffer, transcript_text>>
  /\ UNCHANGED notWS

\* the client sends one audio chunk; it waits in the socket
ClientSend(s) ==
  /\ wpc[s] \notin {"new", "closed", "raised"}
  /\ inbox[s] < MaxInbox
  /\ inbox' = [inbox EXCEPT ![s] = @ + 1]
  /\ UNCHANGED <<registry, loop_owner, wpc, audio_buffer, transcript_text, events>>
  /\ UNCHANGED notWS

\* "data = await websocket.receive_bytes()" returns; the chunk is buffered;
\* at 30 chunks the batch is decoded and, unless it is empty, the handler
\* calls transcription_service.transcribe_audio
WSReceive(s) ==
  /\ wpc[s] = "recv" /\ LoopFree
  /\ inbox[s] > 0
  /\ inbox' = [inbox EXCEPT ![s] = @ - 1]
  /\ IF audio_buffer[s] + 1 >= BatchChunks
     THEN /\ audio_buffer' = [audio_buffer EXCEPT ![s] = 0]
          /\ \E decoded \in BOOLEAN :
               IF decoded
               THEN /\ WSGoto(s, "transcribing")
                    /\ loop_owner' = s
                    /\ events' = [events EXCEPT ![s] = <<>>]
               ELSE UNCHANGED <<wpc, loop_owner, events>>
     ELSE /\ audio_buffer' = [audio_buffer EXCEPT ![s] = @ + 1]
          /\ UNCHANGED <<wpc, loop_owner, events>>
  /\ UNCHANGED <<registry, transcript_text>>
  /\ UNCHANGED notWS

\* transcribe_audio returns; "if transcript_text:" then
\* "await connection_manager.send_transcript(...)"
WSTranscribeReturn(s) ==
  /\ wpc[s] = "transcribing" /\ loop_owner = s
  /\ \E t \in WSTexts :
       /\ transcript_text' = [transcript_text EXCEPT ![s] = t]
       /\ IF t = <<>>
          THEN WSGoto(s, "recv") /\ UNCHANGED events
          ELSE WSGoto(s, "sent_transcript") /\ SendEvent(s, "transcript")
  /\ loop_owner' = "none"
  /\ UNCHANGED <<registry, inbox, audio_buffer>>
  /\ UNCHANGED notWS

\* a variant of the detection step that announces every transcript as a
\* question
WSDetectEveryTranscript(s) ==
  /\ wpc[s] = "sent_transcript" /\ LoopFree
  /\ WSGoto(s, "sent_question") /\ SendEvent(s, "question_detected")
  /\ UNCHANGED <<registry, loop_owner, inbox, audio_buffer, transcript_text>>
  /\ UNCHANGED notWS

\* the segment is saved, question_detector.is_question is called and, for
\* a question, "await connection_manager.send_question_detected(...)"
WSDetect(s) ==
  /\ wpc[s] = "sent_transcript" /\ LoopFree
  /\ IF is_question(transcript_text[s]).is_question
     THEN WSGoto(s, "sent_question") /\ SendEvent(s, "question_detected")
     ELSE WSGoto(s, "recv") /\ UNCHANGED events
  /\ UNCHANGED <<registry, loop_owner, inbox, audio_buffer, transcript_text>>
  /\ UNCHANGED notWS

\* the handler calls answer_generator.generate_answer
WSGenerateCall(s) ==
  /\ wpc[s] = "sent_question" /\ LoopFree
  /\ WSGoto(s, "generating")
  /\ loop_owner' = s
  /\ UNCHANGED <<registry, inbox, audio_buffer, transcript_text, events>>
  /\ UNCHANGED notWS

\* generate_answer returns; "await connection_manager.send_answer(...)"
WSGenerateReturn(s) ==
  /\ wpc[s] = "generating" /\ loop_owner = s
  /\ WSGoto(s, "sent_answer") /\ SendEvent(s, "answer_generated")
  /\ loop_owner' = "none"
  /\ UNCHANGED <<registry, inbox, audio_buffer, transcript_text>>
  /\ UNCHANGED notWS

\* firebase_service.save_question_answer; an exception goes to
\* "except Exception": send_error and disconnect
WSSaveAnswer(s) ==
  /\ wpc[s] = "sent_answer" /\ LoopFree
  /\ \E ok \in BOOLEAN :
       IF ok
       THEN WSGoto(s, "recv") /\ UNCHANGED <<events, registry>>
       ELSE /\ SendEvent(s, "error")
            /\ registry' = registry \ {s}
            /\ WSGoto(s, "closed")
  /\ UNCHANGED <<loop_owner, inbox, audio_buffer, transcript_text>>
  /\ UNCHANGED notWS

\* the client goes away: receive_bytes raises WebSocketDisconnect and the
\* handler calls connection_manager.disconnect
WSDisconnect(s) ==
  /\ wpc[s] = "recv" /\ LoopFree
  /\ registry' = registry \ {s}
  /\ WSGoto(s, "closed")
  /\ UNCHANGED <<loop_owner, inbox, audio_buffer, transcript_text, events>>
  /\ UNCHANGED notWS

WSNext ==
  \/ \E s \in Sessions : WSConnect(s)
  \/ \E s \in Sessions : ClientSend(s)
  \/ \E s \in Sessions : WSReceive(s)
  \/ \E s \in Sessions : WSTranscribeReturn(s)
  \/ \E s \in Sessions : WSDetect(s)
  \/ \E s \in Sessions : WSGenerateCall(s)
  \/ \E s \in Sessions : WSGenerateReturn(s)
  \/ \E s \in Sessions : WSSaveAnswer(s)
  \/ \E s \in Sessions : WSDisconnect(s)

\* C11: while one session is inside transcription or answer generation, the
\* handler of another session that has audio waiting can still take its
\* next step.
C11_OtherSessionsProgress ==
  \A s \in Sessions, o \in Sessions :
     (/\ s # o
      /\ wpc[s] \in {"transcribing", "generating"}
      /\ wpc[o] = "recv" /\ inbox[o] > 0)
     => ENABLED WSReceive(o)

BatchOrder == <<"transcript", "question_detected", "answer_generated">>

\* question_detector.is_question on each transcript the engine may return
question_result == [t \in WSTexts |-> is_question(t)]

\* the events of the current batch of session s, error events left out
BatchEvents(s) == SelectSeq(events[s], LAMBDA e : e # "error")

\* C25: the events of a batch are sent in the order transcript,
\* question_detected, answer_generated, each only after the one before it,
\* and a batch whose text is empty or is not a question gets no
\* answer_generated event.
C25_BatchEventOrder ==
  \A s \in Sessions :
     /\ Len(BatchEvents(s)) <= Len(BatchOrder)
     /\ BatchEvents(s) = SubSeq(BatchOrder, 1, Len(BatchEvents(s)))
     /\ (\E i \in 1..Len(events[s]) : events[s][i] = "answer_generated") =>
           (/\ transcript_text[s] # <<>>
            /\ question_result[transcript_text[s]].is_question)

\* a batch ran through all three events, and another batch was a
\* statement that ended after its transcript
C25_Witness ==
  /\ \E s \in Sessions : BatchEvents(s) = BatchOrder
  /\ \E s \in Sessions :
        /\ wpc[s] = "recv" /\ BatchEvents(s) = <<"transcript">>
        /\ ~question_result[transcript_text[s]].is_question

\* C26: when the handler of a session has ended, on any exit path, the
\* session is no longer in the registry.
C26_EndedHandlerIsUnregistered ==
  \A s \in Sessions : wpc[s] \in {"closed", "raised"} => s \notin registry

(***************************************************************************)
(* backend/answer_generator.py: AnswerGenerator. The object is built once  *)
(* at module level (backend/main.py) and generate_answer is called by the  *)
(* WebSocket handlers; a call is synchronous, so calls do not interleave.  *)
(* A text is the set of its lower-case words; words are numbers.           *)
(***************************************************************************)
GroqModel == "llama-3.3-70b-versatile"

OllamaModel == "llama3.2:3b"

Words == 1..MaxWords

CannedAnswer == [kind |-> "canned", confidence |-> 50]

\* round(x, 2) for x = num / den, in hundredths (ties go to the even digit)
Round2(num, den) ==
  LET q == (100 * num) \div den
      r == (100 * num) % den
  IN IF 2 * r > den THEN q + 1
     ELSE IF 2 * r < den THEN q
     ELSE IF q % 2 = 0 THEN q ELSE q + 1

\* a variant of _calculate_confidence without the clamp to [0.5, 0.95]
calculate_confidence_without_clamp(answer_words, context_words) ==
  LET overlap == Cardinality(answer_words \cap context_words)
      total == Cardinality(answer_words)
  IN IF total = 0 THEN 50 ELSE Round2(overlap, total)

\* AnswerGenerator._calculate_confidence, in hundredths:
\* round(min(0.95, max(0.5, overlap / total)), 2)
calculate_confidence(answer_words, context_words) ==
  LET overlap == Cardinality(answer_words \cap context_words)
      total == Cardinality(answer_words)
  IN IF total = 0 THEN 50
     ELSE IF 100 * overlap >= 95 * total THEN 95
     ELSE IF 100 * overlap <= 50 * total THEN 50
     ELSE Round2(overlap, total)

AGIdle ==
  /\ ag_pc = "new" /\ ag_use_ollama = FALSE /\ ag_model = "unset"
  /\ ag_groq_client = FALSE /\ ag_calls = 0 /\ ag_attempts = <<>>
  /\ ag_answer = {} /\ ag_context = {}
  /\ ag_result = [kind |-> "none", confidence |-> 0]

AGInit == AGIdle

\* __init__(api_key, use_ollama): key is "api_key or GROQ_API_KEY is not
\* empty", groq_ok is "Groq(api_key=...) did not raise"
AGConstruct ==
  /\ ag_pc = "new"
  /\ \E use_ollama \in BOOLEAN, key \in BOOLEAN, groq_ok \in BOOLEAN :
       LET groq == ~use_ollama /\ key /\ groq_ok
       IN /\ ag_groq_client' = groq
          /\ ag_use_ollama' = ~groq
          /\ ag_model' = IF groq THEN GroqModel ELSE OllamaModel
  /\ ag_pc' = "ready"
  /\ UNCHANGED <<ag_calls, ag_attempts, ag_answer, ag_context, ag_result>>
  /\ UNCHANGED notAG

\* generate_answer up to the call of _call_llm: the contexts are extracted
\* and the prompts built; an exception here goes to "except Exception"
AGGenerateAnswer ==
  /\ ag_pc = "ready"
  /\ ag_calls < MaxCalls
  /\ ag_calls' = ag_calls + 1
  /\ ag_attempts' = <<>>
  /\ ag_answer' = {}
  /\ \E ctx \in SUBSET Words, raised \in BOOLEAN :
       /\ ag_context' = ctx
       /\ IF raised
          THEN ag_pc' = "ready" /\ ag_result' = CannedAnswer
          ELSE ag_pc' = "call" /\ ag_result' = [kind |-> "none", confidence |-> 0]
  /\ UNCHANGED <<ag_use_ollama, ag_model, ag_groq_client>>
  /\ UNCHANGED notAG

\* a variant of _call_llm that tries Ollama once more after Ollama failed
AGCallLLMRetryOllama ==
  /\ ag_pc = "call"
  /\ \E ok \in BOOLEAN, answer \in SUBSET Words :
       LET backend == IF ag_use_ollama THEN "ollama" ELSE "groq"
       IN /\ ag_attempts' = Append(ag_attempts,
                                   [provider |-> backend, model |-> ag_model,
                                    ok |-> ok])
          /\ IF ok
             THEN /\ ag_answer' = answer /\ ag_pc' = "score"
                  /\ UNCHANGED <<ag_use_ollama, ag_result>>
             ELSE IF ~ag_use_ollama \/ Len(ag_attempts) < 2
             THEN /\ ag_use_ollama' = TRUE
                  /\ UNCHANGED <<ag_pc, ag_answer, ag_result>>
             ELSE /\ ag_pc' = "ready" /\ ag_result' = CannedAnswer
                  /\ UNCHANGED <<ag_use_ollama, ag_answer>>
  /\ UNCHANGED <<ag_model, ag_groq_client, ag_calls, ag_context>>
  /\ UNCHANGED notAG

\* _call_llm: one request to the active provider. It returns the answer
\* text, or it fails: a failed Groq request sets use_ollama and calls
\* _call_llm again; a failed Ollama request re-raises, through every
\* _call_llm frame, to "except Exception" of generate_answer
AGCallLLM ==
  /\ ag_pc = "call"
  /\ \E ok \in BOOLEAN, answer \in SUBSET Words :
       LET backend == IF ag_use_ollama THEN "ollama" ELSE "groq"
       IN /\ ag_attempts' = Append(ag_attempts,
                                   [provider |-> backend, model |-> ag_model,
                                    ok |-> ok])
          /\ IF ok
             THEN /\ ag_answer' = answer /\ ag_pc' = "score"
                  /\ UNCHANGED <<ag_use_ollama, ag_result>>
             ELSE IF ~ag_use_ollama
             THEN /\ ag_use_ollama' = TRUE
                  /\ UNCHANGED <<ag_pc, ag_answer, ag_result>>
             ELSE /\ ag_pc' = "ready" /\ ag_result' = CannedAnswer
                  /\ UNCHANGED <<ag_use_ollama, ag_answer>>
  /\ UNCHANGED <<ag_model, ag_groq_client, ag_calls, ag_context>>
  /\ UNCHANGED notAG

\* generate_answer after _call_llm returned: _calculate_confidence and the
\* result dict
AGReturn ==
  /\ ag_pc = "score"
  /\ ag_result' = [kind |-> "answer",
                   confidence |-> calculate_confidence(ag_answer, ag_context)]
  /\ ag_pc' = "ready"
  /\ UNCHANGED <<ag_use_ollama, ag_model, ag_groq_client, ag_calls,
                 ag_attempts, ag_answer, ag_context>>
  /\ UNCHANGED notAG

AGNext ==
  \/ AGConstruct
  \/ AGGenerateAnswer
  \/ AGCallLLM
  \/ AGReturn

\* C23: every result of generate_answer, normal or canned, carries a
\* confidence between 0.5 and 0.95, for every overlap of answer and context
\* words and for the empty answer.
C23_ConfidenceWithinClamp ==
  (ag_result.kind # "none") =>
     (ag_result.confidence >= 50 /\ ag_result.confidence <= 95)

\* a normal result whose answer shares none of its words with the context:
\* the ratio is 0 and the result carries 0.5
C23_Witness ==
  /\ ag_pc = "ready" /\ ag_result.kind = "answer"
  /\ ag_answer # {} /\ ag_answer \cap ag_context = {}
  /\ ag_result.confidence = 50

\* C28: in every state after construction the model name is the one of
\* the active provider.
C28_ModelMatchesProvider ==
  (ag_pc # "new") =>
     ag_model = (IF ag_use_ollama THEN OllamaModel ELSE GroqModel)

\* the call is over
AGCallDone == ag_pc = "ready" /\ ag_calls > 0

\* C29: a generate_answer call makes at most two backend attempts, the
\* second one only against Ollama after Groq failed; when its last attempt
\* failed the call returns the canned answer with confidence 0.5; the call
\* always ends with a result.
C29_AtMostTwoAttempts ==
  /\ Len(ag_attempts) <= 2
  /\ Len(ag_attempts) = 2 =>
        (/\ ag_attempts[1].provider = "groq" /\ ~ag_attempts[1].ok
         /\ ag_attempts[2].provider = "ollama")
  /\ AGCallDone =>
        (/\ ag_result.kind \in {"answer", "canned"}
         /\ (ag_attempts # <<>> /\ ~ag_attempts[Len(ag_attempts)].ok) =>
               ag_result = CannedAnswer)

\* Groq failed, the retry against Ollama failed too, the canned answer came
C29_Witness ==
  /\ AGCallDone /\ Len(ag_attempts) = 2
  /\ ~ag_attempts[2].ok /\ ag_result = CannedAnswer

(***************************************************************************)
(* backend/connection_manager.py: ConnectionManager. Its methods run on    *)
(* the event loop; connect awaits only websocket.accept(), before it       *)
(* writes anything, so every method body is one step.                      *)
(***************************************************************************)
SessionIds == {"a", "b"}

Chunks == {"c1", "c2"}

NoCall == [op |-> "none", id |-> "a", known |-> FALSE, ret |-> <<>>]

CMIdle ==
  /\ active_connections = {} /\ session_data = <<>>
  /\ cm_ops = 0 /\ cm_last = NoCall

CMInit == CMIdle

\* dict assignment d[k] = v
Assign(f, k, v) == [x \in DOMAIN f \cup {k} |-> IF x = k THEN v ELSE f[x]]

\* del d[k]
Delete(f, k) == [x \in DOMAIN f \ {k} |-> f[x]]

CMCalled(op, i, ret) ==
  /\ cm_ops' = cm_ops + 1
  /\ cm_last' = [op |-> op, id |-> i, known |-> i \in DOMAIN session_data,
                 ret |-> ret]

\* connect(websocket, session_id): accept() raises, or the connection and
\* a fresh session record are stored
CMConnect(i) ==
  /\ cm_ops < MaxOps
  /\ \E accepted \in BOOLEAN :
       IF accepted
       THEN /\ active_connections' = active_connections \cup {i}
            /\ session_data' = Assign(session_data, i, <<>>)
       ELSE UNCHANGED <<active_connections, session_data>>
  /\ CMCalled("connect", i, <<>>)
  /\ UNCHANGED notCM

\* a variant of disconnect that forgets to delete the session record
CMDisconnectConnectionOnly(i) ==
  /\ cm_ops < MaxOps
  /\ active_connections' = active_connections \ {i}
  /\ UNCHANGED session_data
  /\ CMCalled("disconnect", i, <<>>)
  /\ UNCHANGED notCM

\* disconnect(session_id)
CMDisconnect(i) ==
  /\ cm_ops < MaxOps
  /\ active_connections' = active_connections \ {i}
  /\ session_data' = IF i \in DOMAIN session_data
                     THEN Delete(session_data, i) ELSE session_data
  /\ CMCalled("disconnect", i, <<>>)
  /\ UNCHANGED notCM

\* add_to_buffer(session_id, audio_chunk)
CMAddToBuffer(i, c) ==
  /\ cm_ops < MaxOps
  /\ session_data' = IF i \in DOMAIN session_data
                     THEN [session_data EXCEPT ![i] = Append(@, c)]
                     ELSE session_data
  /\ CMCalled("add_to_buffer", i, <<>>)
  /\ UNCHANGED active_connections
  /\ UNCHANGED notCM

\* get_buffer(session_id, clear)
CMGetBuffer(i, clear) ==
  /\ cm_ops < MaxOps
  /\ session_data' = IF i \in DOMAIN session_data /\ clear
                     THEN [session_data EXCEPT ![i] = <<>>]
                     ELSE session_data
  /\ CMCalled("get_buffer", i,
              IF i \in DOMAIN session_data THEN session_data[i] ELSE <<>>)
  /\ UNCHANGED active_connections
  /\ UNCHANGED notCM

CMNext ==
  \/ \E i \in SessionIds : CMConnect(i)
  \/ \E i \in SessionIds : CMDisconnect(i)
  \/ \E i \in SessionIds, c \in Chunks : CMAddToBuffer(i, c)
  \/ \E i \in SessionIds, clear \in BOOLEAN : CMGetBuffer(i, clear)

\* C30: active_connections and session_data always hold the same session
\* ids; disconnect and add_to_buffer for an unknown id change nothing, and
\* get_buffer for an unknown id returns the empty list.
C30_SameKeySets ==
  /\ [](active_connections = DOMAIN session_data)
  /\ []((cm_last.op = "get_buffer" /\ ~cm_last.known) => cm_last.ret = <<>>)
  /\ [][(/\ cm_ops' # cm_ops
         /\ cm_last'.op \in {"disconnect", "add_to_buffer"}
         /\ ~cm_last'.known) =>
            UNCHANGED <<active_connections, session_data>>]_vars

\* a disconnect of an unknown id while another session holds buffered audio
C30_Witness ==
  /\ cm_last.op = "disconnect" /\ ~cm_last.known
  /\ cm_last.id \notin active_connections
  /\ \E i \in active_connections : session_data[i] # <<>>

(***************************************************************************)
(* Specifications                                                          *)
(***************************************************************************)
InitLLM ==
  /\ LLMInit
  /\ CLIIdle /\ TrIdle /\ RecIdle /\ SSEIdle /\ PickIdle
  /\ QDIdle /\ WSIdle /\ AGIdle /\ CMIdle

SpecLLM == InitLLM /\ [][LLMNext]_vars

InitCLI ==
  /\ CLIInit
  /\ LLMIdle /\ TrIdle /\ RecIdle /\ SSEIdle /\ PickIdle
  /\ QDIdle /\ WSIdle /\ AGIdle /\ CMIdle

SpecCLI == InitCLI /\ [][CLINext]_vars

InitTr ==
  /\ TrInit
  /\ LLMIdle /\ CLIIdle /\ RecIdle /\ SSEIdle /\ PickIdle
  /\ QDIdle /\ WSIdle /\ AGIdle /\ CMIdle

SpecTr == InitTr /\ [][TrNext]_vars

InitRec ==
  /\ RecInit
  /\ LLMIdle /\ CLIIdle /\ TrIdle /\ SSEIdle /\ PickIdle
  /\ QDIdle /\ WSIdle /\ AGIdle /\ CMIdle

SpecRec == InitRec /\ [][RecNext]_vars

InitSSE ==
  /\ SSEInit
  /\ LLMIdle /\ CLIIdle /\ TrIdle /\ RecIdle /\ PickIdle
  /\ QDIdle /\ WSIdle /\ AGIdle /\ CMIdle

SpecSSE == InitSSE /\ [][SSENext]_vars

InitPick ==
  /\ PickInit
  /\ LLMIdle /\ CLIIdle /\ TrIdle /\ RecIdle /\ SSEIdle
  /\ QDIdle /\ WSIdle /\ AGIdle /\ CMIdle

SpecPick == InitPick /\ [][PickNext]_vars

InitQD ==
  /\ QDInit
  /\ LLMIdle /\ CLIIdle /\ TrIdle /\ RecIdle /\ SSEIdle
  /\ PickIdle /\ WSIdle /\ AGIdle /\ CMIdle

SpecQD == InitQD /\ [][QDNext]_vars

InitWS ==
  /\ WSInit
  /\ LLMIdle /\ CLIIdle /\ TrIdle /\ RecIdle /\ SSEIdle
  /\ PickIdle /\ QDIdle /\ AGIdle /\ CMIdle

SpecWS == InitWS /\ [][WSNext]_vars

InitAG ==
  /\ AGInit
  /\ LLMIdle /\ CLIIdle /\ TrIdle /\ RecIdle /\ SSEIdle
  /\ PickIdle /\ QDIdle /\ WSIdle /\ CMIdle

SpecAG == InitAG /\ [][AGNext]_vars

InitCM ==
  /\ CMInit
  /\ LLMIdle /\ CLIIdle /\ TrIdle /\ RecIdle /\ SSEIdle
  /\ PickIdle /\ QDIdle /\ WSIdle /\ AGIdle

SpecCM == InitCM /\ [][CMNext]_vars
====
